---- MODULE Spec2Model ----
(***************************************************************************)
(* Model of the RPC provider stack of the relayer (ProviderUtils):         *)
(*   RateLimitedProvider  - per-endpoint concurrency-limited queue         *)
(*   CacheProvider        - KV cache in front of a rate limited endpoint   *)
(*   RetryProvider        - retries, fallback promotion and quorum         *)
(* Each layer has its own specification (SpecRouter, SpecEndpoint); the    *)
(* variables of the other layer stay at their initial value.               *)
(***************************************************************************)
EXTENDS Integers, Sequences, FiniteSets, TLC

\* ------------------------------------------------------------------------
\* Bounds of the model
\* ------------------------------------------------------------------------
MaxProviders == 4
MaxRetries == 1
NumCallers == 2
MaxConcurrency == 2

\* ------------------------------------------------------------------------
\* JSON results.  A result is a record [kind, body, miner]:
\*   kind  "undefined" | "null" | "str" | "obj"
\*   body  the string itself, or everything of an object except `miner`
\*   miner "absent" (no such key) | "undef" (key holding undefined) | value
\* ------------------------------------------------------------------------
Undefined == [kind |-> "undefined", body |-> "", miner |-> "absent"]
Null == [kind |-> "null", body |-> "", miner |-> "absent"]
Str(s) == [kind |-> "str", body |-> s, miner |-> "absent"]
Obj(h, m) == [kind |-> "obj", body |-> h, miner |-> m]

StrResults == {Str("0x10"), Str("0x11"), Str("0x12")}
BlockResults == {Null, Obj("0x1", "0xaa"), Obj("0x1", "0xbb"), Obj("0x2", "0xaa")}

\* The results an endpoint can answer a method with.
ResultsOf(m) == IF m = "eth_getBlockByNumber" THEN BlockResults ELSE StrResults

\* lodash.isEqual on two results: deep structural equality (a key holding
\* undefined is a key, so it differs from an absent key).
isEqual(a, b) == a = b

\* rpcResults[key] for key "miner": undefined when the key is absent.
ReadMiner(v) == IF v.miner = "absent" THEN "undef" ELSE v.miner

\* A heap maps a reference to the result object it denotes; reference 0 is
\* the literal `undefined`.
Deref(h, r) == IF r = 0 THEN Undefined ELSE h[r]
SetMiner(h, r, m) == IF r = 0 THEN h ELSE [h EXCEPT ![r] = [@ EXCEPT !.miner = m]]
Throws(v) == v.kind \in {"undefined", "null"}

\* compareRpcResults(method, rpcResultA, rpcResultB) on references ra, rb into
\* heap h.  Yields whether it threw (property access on null/undefined),
\* the boolean it returned, and the heap it leaves behind.
compareRpcResults(m, h, ra, rb) ==
  IF m = "eth_getBlockByNumber"
  THEN IF Throws(Deref(h, ra))
       THEN [threw |-> TRUE, eq |-> FALSE, heap |-> h]
       ELSE LET savedA == ReadMiner(Deref(h, ra))
                h1 == SetMiner(h, ra, "absent")
            IN IF Throws(Deref(h1, rb))
               THEN [threw |-> TRUE, eq |-> FALSE, heap |-> h1]
               ELSE LET savedB == ReadMiner(Deref(h1, rb))
                        h2 == SetMiner(h1, rb, "absent")
                        result == isEqual(Deref(h2, ra), Deref(h2, rb))
                        h3 == SetMiner(h2, ra, savedA)
                        h4 == SetMiner(h3, rb, savedB)
                    IN [threw |-> FALSE, eq |-> result, heap |-> h4]
  ELSE [threw |-> FALSE, eq |-> isEqual(Deref(h, ra), Deref(h, rb)), heap |-> h]

\* ------------------------------------------------------------------------
\* Logical calls
\* ------------------------------------------------------------------------
Calls ==
  { [method |-> "eth_getLogs", params |-> <<"filter">>],
    [method |-> "eth_getBlockByNumber", params |-> <<"0x10", "false">>],
    [method |-> "eth_getBlockByNumber", params |-> <<"latest", "false">>],
    [method |-> "eth_blockNumber", params |-> <<>>] }

\* params[i] of a JavaScript array (0-based); undefined past the end.
ParamAt(ps, i) == IF i < Len(ps) THEN ps[i + 1] ELSE "undefined"

getQuorum_always(m, ps, nqt) == nqt

\* RetryProvider._getQuorum
getQuorum(m, ps, nqt) ==
  IF m = "eth_getLogs" THEN nqt
  ELSE IF m = "eth_getBlockByNumber" /\ ParamAt(ps, 0) # "latest" THEN nqt
  ELSE IF m = "eth_call" /\ ParamAt(ps, 1) # "latest" THEN nqt
  ELSE 1

\* ------------------------------------------------------------------------
\* State
\* ------------------------------------------------------------------------
VARIABLES
  \* RetryProvider (one router, one logical call)
  providers,            \* this.providers: endpoint ids in preference order
  nodeQuorumThreshold,  \* this.nodeQuorumThreshold
  retries,              \* this.retries
  method, params,       \* arguments of send
  phase,                \* "idle" | "dispatching" | "tiebreak" | "settled"
  quorumThreshold,      \* local of send
  fallbackProviders,    \* local of send: the deque of unused endpoints
  errors,               \* local of send: endpoints whose _trySend rejected
  task,                 \* promise chains: 1..Q required slots, then fallbacks;
                        \* attempt is the ordinal of the send in flight
  heap,                 \* result object held by each task, as it is now
  returned,             \* result object of each task as the endpoint sent it
  retried,              \* some _trySend of this call has made a second attempt
  dispatched,           \* _trySend calls made on each endpoint
  outcome,              \* "pending" | "resolved" | "notEnough" | "noQuorum" | "typeError"
  resultRef,            \* task whose result object send resolved with
  rejection,            \* the object send rejected with: its own properties
  warnings              \* what send has given to logger.warn

routerVars == <<providers, nodeQuorumThreshold, retries, method, params, phase,
                quorumThreshold, fallbackProviders, errors, task, heap, returned,
                retried, dispatched, outcome, resultRef, rejection, warnings>>

VARIABLES
  \* one CacheProvider on top of its RateLimitedProvider queue
  maxConcurrency,       \* concurrency of the async queue
  redisClient,          \* whether the endpoint holds a KV-cache handle
  queue,                \* q._tasks: callers whose task waits, oldest first
  numRunning,           \* the queue's count of running workers
  pc,                   \* where each caller is inside CacheProvider.send
  call,                 \* [method, fromBlock, toBlock] of the caller's send
  cacheable,            \* the caller is inside the `if` branch (lines 137-152)
  result,               \* what upstream answered / what send settled with
  reqs,                 \* requests this call handed to RateLimitedProvider.send
  redisResult,          \* local of send: what redisClient.get answered (Nil: null)
  kv,                   \* the KV store: key -> stored string
  internalBlockNumber,  \* BaseProvider._internalBlockNumber
  maxInternalBlockNumber,
  connection,           \* this.connection.url of the CacheProvider each caller calls
  writer                \* <<key, URL>>: the CacheProvider that set the key last

endpointVars == <<maxConcurrency, redisClient, queue, numRunning, pc, call, cacheable,
                  result, reqs, redisResult, kv, internalBlockNumber, maxInternalBlockNumber,
                  connection, writer>>

VARIABLES
  \* one call of compareRpcResults on two result objects of `heap`
  rpcResultA, rpcResultB,  \* its arguments, as references into the heap
  compared                 \* "none" before the call, then "true" | "false" | "threw"

compareVars == <<rpcResultA, rpcResultB, compared>>

VARIABLES
  \* the provider registry of the process and the calls made on it
  processEnv,              \* what the process is configured with: process.env
                           \* (node URLs per chain, NODE_QUORUM, NODE_RETRIES,
                           \* NODE_RETRY_DELAY) and the MAX_REORG_DISTANCE table
  providerCache,           \* providerCache: key -> router (0: no entry)
  getp,                    \* each caller's getProvider / getCachedProvider call
  constructorArgs,         \* arguments of a `new RetryProvider(...)` under study
  throttle                 \* one call of an endpoint's throttleCallback

registryVars == <<processEnv, providerCache, getp, constructorArgs, throttle>>

vars == <<routerVars, endpointVars, compareVars, registryVars>>

\* no comparison under study
CompareIdle == rpcResultA = 0 /\ rpcResultB = 0 /\ compared = "none"

\* ------------------------------------------------------------------------
\* CacheProvider / RateLimitedProvider: data
\* ------------------------------------------------------------------------
Callers == 1..NumCallers

\* MAX_REORG_DISTANCE[chainId] of the endpoint's chain
maxReorgDistance == 2

\* What eth_blockNumber may answer: the head stands one block past the
\* reorg horizon of block 0x0 and the endpoint's view may lag by a block.
HeadReports == {maxReorgDistance, maxReorgDistance + 1}

\* The sends callers make: eth_getLogs with a block range, or another method.
EndpointCalls ==
  { [method |-> "eth_getLogs", fromBlock |-> "0x0", toBlock |-> "0x0"],
    [method |-> "eth_getLogs", fromBlock |-> "0x1", toBlock |-> "0x0"],
    [method |-> "eth_getLogs", fromBlock |-> "0x0", toBlock |-> "latest"],
    [method |-> "eth_getLogs", fromBlock |-> "earliest", toBlock |-> "0x0"],
    [method |-> "eth_call", fromBlock |-> "undefined", toBlock |-> "undefined"] }
NoCall == [method |-> "none", fromBlock |-> "undefined", toBlock |-> "undefined"]

\* Sends with later blocks and the block tags of eth_getLogs, made on a
\* chain whose head stands near block 0x12.
RangeCalls ==
  { [method |-> "eth_getLogs", fromBlock |-> "0x0", toBlock |-> "0xf"],
    [method |-> "eth_getLogs", fromBlock |-> "0x0", toBlock |-> "finalized"],
    [method |-> "eth_getLogs", fromBlock |-> "0x0", toBlock |-> "latest"],
    [method |-> "eth_getLogs", fromBlock |-> "0x0", toBlock |-> "earliest"],
    [method |-> "eth_getLogs", fromBlock |-> "earliest", toBlock |-> "0xf"],
    [method |-> "eth_getLogs", fromBlock |-> "0x1", toBlock |-> "0x0"],
    [method |-> "eth_call", fromBlock |-> "undefined", toBlock |-> "undefined"] }
\* what eth_blockNumber may answer there: 0xf is at the reorg horizon of
\* the first answer and below the horizon of the second
RangeReports == {15 + maxReorgDistance, 15 + maxReorgDistance + 1}

\* parseInt(s, 16): the longest prefix of s that is a hexadecimal number
\* (after an optional 0x), NaN when there is none.  "earliest" starts with
\* the hexadecimal digits e and a, "finalized" with the digit f; "latest"
\* and "undefined" start with none.
NaN == 0 - 1
parseInt16(s) ==
  CASE s = "0x0" -> 0
    [] s = "0x1" -> 1
    [] s = "0x2" -> 2
    [] s = "0xf" -> 15
    [] s = "finalized" -> 15
    [] s = "earliest" -> 14 * 16 + 10
    [] OTHER -> NaN
isNaN(x) == x = NaN

\* JSON.stringify / JSON.parse of a result, and the null reply of the store.
JSONstringify_blank(v) == <<"json", "">>
JSONstringify(v) == <<"json", v>>
JSONparse(str) == str[2]
Nil == <<>>

\* buildRedisKey: getLogsCachePrefix + JSON.stringify(params)
\* An endpoint URL as new URL(url) takes it apart: the path carries the
\* API key.
Url(hostname, pathname) == [hostname |-> hostname, pathname |-> pathname]
Urls == {Url("host", "/key1"), Url("host", "/key2"), Url("other", "/key1")}
\* the URL of the endpoint where one endpoint is studied
TheUrl == Url("host", "/key1")
\* `${providerCacheNamespace},${new URL(this.connection.url).hostname},${chainId}:eth_getLogs,`
getLogsCachePrefix(url) == <<"DEFAULT_0", url.hostname, "1:eth_getLogs">>
buildRedisKey(url, c) == <<getLogsCachePrefix(url), c.fromBlock, c.toBlock>>
Keys == {buildRedisKey(u, c) : u \in Urls, c \in EndpointCalls \cup RangeCalls}

LogResults == {"logsA", "logsB"}
NoResult == [kind |-> "none", v |-> ""]
Value(v) == [kind |-> "value", v |-> v]
Error_asValue(e) == [kind |-> "value", v |-> e]
Error(e) == [kind |-> "error", v |-> e]
NoReqs == [rpc |-> 0, bn |-> 0]
NoBlockNumber == [st |-> "none", blockNumber |-> 0]

\* ---- the provider registry and the RetryProvider constructor ----
\* chain ids the process asks providers for
Chains == {1, 10}

\* getProviderCacheKey: `${chainId}_${redisEnabled ? "cache" : "nocache"}`
getProviderCacheKey(chainId, redisEnabled) ==
  <<chainId, IF redisEnabled THEN "cache" ELSE "nocache">>
ProviderCacheKeys == {getProviderCacheKey(ch, re) : ch \in Chains, re \in BOOLEAN}

\* Number(str) of an environment string, kept in tenths; "abc" gives NaN
Number(str) ==
  CASE str = "0" -> [nan |-> FALSE, tenths |-> 0]
    [] str = "1" -> [nan |-> FALSE, tenths |-> 10]
    [] str = "2" -> [nan |-> FALSE, tenths |-> 20]
    [] str = "3" -> [nan |-> FALSE, tenths |-> 30]
    [] str = "0.5" -> [nan |-> FALSE, tenths |-> 5]
    [] str = "1.5" -> [nan |-> FALSE, tenths |-> 15]
    [] str = "-1" -> [nan |-> FALSE, tenths |-> 0 - 10]
    [] OTHER -> [nan |-> TRUE, tenths |-> 0]
FromInt(i) == [nan |-> FALSE, tenths |-> 10 * i]
\* a < b on JavaScript numbers: false when either is NaN
lessThan(a, b) == ~a.nan /\ ~b.nan /\ a.tenths < b.tenths
isInteger(a) == ~a.nan /\ a.tenths % 10 = 0

constructorThrows_noUpperCheck(n, nqt, r, d) ==
  \/ lessThan(nqt, FromInt(1)) \/ ~isInteger(nqt)
  \/ lessThan(r, FromInt(0)) \/ ~isInteger(r)
  \/ lessThan(d, FromInt(0))

\* the four checks of the RetryProvider constructor, on n endpoints
constructorThrows(n, nqt, r, d) ==
  \/ lessThan(nqt, FromInt(1)) \/ ~isInteger(nqt)
  \/ lessThan(r, FromInt(0)) \/ ~isInteger(r)
  \/ lessThan(d, FromInt(0))
  \/ lessThan(FromInt(n), nqt)

NoArgs == [n |-> 0, nodeQuorumThreshold |-> FromInt(0), retries |-> FromInt(0),
           delay |-> FromInt(0)]

\* process.env of one chain: NODE_URLS_<chainId> and NODE_URL_<chainId>;
\* "" stands for an unset (or empty) variable, both of which are falsy
NoUrls == [NODE_URLS |-> "", NODE_URL |-> ""]
\* MAX_REORG_DISTANCE[chainId] as a string: a distance or "undefined"
AllReorgDistances == [ch \in Chains |-> "2"]
NoEnv == [urls |-> [ch \in Chains |-> NoUrls], NODE_QUORUM |-> "", NODE_RETRIES |-> "",
          NODE_RETRY_DELAY |-> "", MAX_REORG_DISTANCE |-> AllReorgDistances]

cacheProviderThrows_never(env, chainId) == FALSE

\* the CacheProvider constructor, run for every URL of the list: throws if
\* MAX_REORG_DISTANCE[chainId] === undefined
cacheProviderThrows(env, chainId) == env.MAX_REORG_DISTANCE[chainId] = "undefined"

\* JSON.parse of a NODE_URLS string
JSONparseList(str) ==
  CASE str = "[u1]" -> <<"u1">>
    [] str = "[u1,u2]" -> <<"u1", "u2">>
    [] OTHER -> <<>>

getNodeUrlList_fallsBack(env, chainId) ==
  LET e == env.urls[chainId]
  IN IF e.NODE_URLS # "" /\ Len(JSONparseList(e.NODE_URLS)) > 0
     THEN [threw |-> FALSE, urls |-> JSONparseList(e.NODE_URLS)]
     ELSE IF e.NODE_URL # "" THEN [threw |-> FALSE, urls |-> <<e.NODE_URL>>]
     ELSE [threw |-> TRUE, urls |-> <<>>]

\* getNodeUrlList(chainId) under the environment env
getNodeUrlList(env, chainId) ==
  LET e == env.urls[chainId]
  IN IF e.NODE_URLS # ""
     THEN LET nodeUrls == JSONparseList(e.NODE_URLS)
          IN IF Len(nodeUrls) = 0 THEN [threw |-> TRUE, urls |-> <<>>]
             ELSE [threw |-> FALSE, urls |-> nodeUrls]
     ELSE IF e.NODE_URL # "" THEN [threw |-> FALSE, urls |-> <<e.NODE_URL>>]
     ELSE [threw |-> TRUE, urls |-> <<>>]

\* a caller that has called neither getProvider nor getCachedProvider
NoGet == [pc |-> "idle", fn |-> "none", chainId |-> 0, flag |-> FALSE,
          redis |-> FALSE, ret |-> 0, threw |-> FALSE, among |-> {}]

\* no throttleCallback under study
NoThrottle == [st |-> "none", attempt |-> 0, retries |-> 0, random |-> 0,
               timeout |-> 0, waited |-> 0, retry |-> FALSE]

\* the registry at rest (its state while another layer is studied)
RegistryIdle ==
  /\ processEnv = NoEnv
  /\ providerCache = [k \in ProviderCacheKeys |-> 0]
  /\ getp = [c \in Callers |-> NoGet]
  /\ constructorArgs = NoArgs
  /\ throttle = NoThrottle

\* the endpoint layer at rest (its state while the router is studied)
EndpointIdle ==
  /\ maxConcurrency = 1
  /\ redisClient = FALSE
  /\ queue = <<>>
  /\ numRunning = 0
  /\ pc = [c \in Callers |-> "idle"]
  /\ call = [c \in Callers |-> NoCall]
  /\ cacheable = [c \in Callers |-> FALSE]
  /\ result = [c \in Callers |-> NoResult]
  /\ reqs = [c \in Callers |-> NoReqs]
  /\ redisResult = [c \in Callers |-> Nil]
  /\ kv = [k \in Keys |-> Nil]
  /\ connection = [c \in Callers |-> TheUrl]
  /\ writer = {}
  /\ internalBlockNumber = NoBlockNumber
  /\ maxInternalBlockNumber = 0

\* A JavaScript object as its own properties: name -> value and whether
\* the property is enumerable.  A value is a text with, for the messages of
\* send, the endpoints it lists as failed and as succeeded.
Text(t) == [text |-> t, failed |-> {}, succeeded |-> {}]
Prop(v, e) == [value |-> v, enumerable |-> e]
NoRejection == [name \in {} |-> Prop(Text(""), FALSE)]

Slots == 1..MaxProviders
NoTask == [provider |-> 0, st |-> "none", attempt |-> 0]
RangeSeq(a, b) == [i \in 1..(b - a + 1) |-> a + i - 1]
SeqRange(s) == {s[i] : i \in 1..Len(s)}

\* The RetryProvider constructor accepts exactly these configurations
\* (integers only are drawn; delay is a duration and is not modelled).
ValidConfig(n, nqt, r) == ~(nqt < 1) /\ ~(r < 0) /\ ~(nqt > n)

\* a constructed router about to be sent one of the calls cs
Constructed(cs) ==
  /\ EndpointIdle
  /\ CompareIdle
  /\ RegistryIdle
  /\ \E n \in 1..MaxProviders : providers = RangeSeq(1, n)
  /\ nodeQuorumThreshold \in 1..MaxProviders
  /\ retries \in 0..MaxRetries
  /\ ValidConfig(Len(providers), nodeQuorumThreshold, retries)
  /\ \E c \in cs : method = c.method /\ params = c.params
  /\ phase = "idle"
  /\ quorumThreshold = 0
  /\ fallbackProviders = <<>>
  /\ errors = <<>>
  /\ task = [t \in Slots |-> NoTask]
  /\ heap = [t \in Slots |-> Undefined]
  /\ returned = [t \in Slots |-> Undefined]
  /\ retried = FALSE
  /\ dispatched = [p \in Slots |-> 0]
  /\ outcome = "pending"
  /\ resultRef = 0
  /\ rejection = NoRejection
  /\ warnings = <<>>

RouterInit == Constructed(Calls)

\* slice(0, q) and slice(q) of a JavaScript array
SliceTo(s, q) == SubSeq(s, 1, IF q < Len(s) THEN q ELSE Len(s))
SliceFrom_whole(s, q) == s
SliceFrom(s, q) == SubSeq(s, q + 1, Len(s))

Launch_second(p) == [provider |-> p, st |-> "inflight", attempt |-> 2]

\* _trySend(provider, ...) begins with provider.send(method, params)
Launch(p) == [provider |-> p, st |-> "inflight", attempt |-> 1]
\* a settled chain makes no further attempt
Settle(tk, st) == [provider |-> tk.provider, st |-> st, attempt |-> 0]
Bump(f, ps) == [p \in Slots |-> f[p] + Cardinality({i \in DOMAIN ps : ps[i] = p})]

\* RetryProvider.send up to the first await: computes the quorum, splits
\* the endpoints and starts tryWithFallback on every required endpoint.
Send ==
  /\ UNCHANGED <<endpointVars, compareVars, registryVars, rejection, warnings>>
  /\ phase = "idle"
  /\ LET q == getQuorum(method, params, nodeQuorumThreshold)
         requiredProviders == SliceTo(providers, q)
     IN /\ quorumThreshold' = q
        /\ fallbackProviders' = SliceFrom(providers, q)
        /\ task' = [t \in Slots |-> IF t <= Len(requiredProviders)
                                    THEN Launch(requiredProviders[t]) ELSE NoTask]
        /\ dispatched' = Bump(dispatched, requiredProviders)
  /\ phase' = "dispatching"
  /\ errors' = <<>>
  /\ UNCHANGED <<providers, nodeQuorumThreshold, retries, method, params, heap,
                 returned, retried, outcome, resultRef>>

\* provider.send of task t resolves with v; the chain skips its remaining
\* catch handlers and the task is fulfilled with [provider, v].
SendSucceeds(t, v) ==
  /\ UNCHANGED <<endpointVars, compareVars, registryVars, rejection, warnings>>
  /\ phase \in {"dispatching", "tiebreak"}
  /\ task[t].st = "inflight"
  /\ v \in ResultsOf(method)
  /\ task' = [task EXCEPT ![t] = Settle(@, "fulfilled")]
  /\ heap' = [heap EXCEPT ![t] = v]
  /\ returned' = [returned EXCEPT ![t] = v]
  /\ UNCHANGED <<providers, nodeQuorumThreshold, retries, method, params, phase,
                 quorumThreshold, fallbackProviders, errors, retried, dispatched,
                 outcome, resultRef>>

trySend_retryBudget_extra(a, r) == a <= r + 1

\* _trySend chains `retries` catch handlers: a failed attempt number a is
\* followed by another one iff a <= retries.
trySend_retryBudget(a, r) == a <= r

\* provider.send of task t rejects and a catch handler of _trySend is left:
\* it waits delay(this.delay).
SendFailsRetry(t) ==
  /\ UNCHANGED <<endpointVars, compareVars, registryVars, rejection, warnings>>
  /\ phase \in {"dispatching", "tiebreak"}
  /\ task[t].st = "inflight"
  /\ trySend_retryBudget(task[t].attempt, retries)
  /\ task' = [task EXCEPT ![t].st = "delay"]
  /\ UNCHANGED <<providers, nodeQuorumThreshold, retries, method, params, phase,
                 quorumThreshold, fallbackProviders, errors, heap, returned,
                 retried, dispatched, outcome, resultRef>>

nextAttempt_same(a) == a

\* every catch handler of the chain makes one more provider.send
nextAttempt(a) == a + 1

\* the delay timer fires: the handler calls provider.send again.
DelayElapsed(t) ==
  /\ UNCHANGED <<endpointVars, compareVars, registryVars, rejection, warnings>>
  /\ phase \in {"dispatching", "tiebreak"}
  /\ task[t].st = "delay"
  /\ task' = [task EXCEPT ![t].st = "inflight", ![t].attempt = nextAttempt(@)]
  /\ retried' = TRUE
  /\ UNCHANGED <<providers, nodeQuorumThreshold, retries, method, params, phase,
                 quorumThreshold, fallbackProviders, errors, heap, returned,
                 dispatched, outcome, resultRef>>

\* fallbackProviders.shift() in the catch handler of tryWithFallback:
\* what is left of the deque once its front has been taken.
shift_keep(fb) == fb
shift(fb) == Tail(fb)
\* ... and the endpoint it returns: the front one.
shifted_last(fb) == fb[Len(fb)]
shifted(fb) == Head(fb)

\* The last attempt of required slot t rejected: the catch handler of
\* tryWithFallback records the error, and either rethrows (deque empty) or
\* takes the front fallback and starts tryWithFallback on it.
TryWithFallbackCatch(t) ==
  /\ UNCHANGED <<endpointVars, compareVars, registryVars, rejection, warnings>>
  /\ phase = "dispatching"
  /\ task[t].st = "inflight"
  /\ ~trySend_retryBudget(task[t].attempt, retries)
  /\ errors' = Append(errors, task[t].provider)
  /\ IF Len(fallbackProviders) = 0
     THEN /\ task' = [task EXCEPT ![t] = Settle(@, "rejected")]
          /\ UNCHANGED <<fallbackProviders, dispatched>>
     ELSE LET next == shifted(fallbackProviders)
          IN /\ fallbackProviders' = shift(fallbackProviders)
             /\ task' = [task EXCEPT ![t] = Launch(next)]
             /\ dispatched' = [dispatched EXCEPT ![next] = @ + 1]
  /\ UNCHANGED <<providers, nodeQuorumThreshold, retries, method, params, phase,
                 quorumThreshold, heap, returned, retried, outcome, resultRef>>

\* The last attempt of a tie-break fallback rejected: its catch handler
\* records the error and rethrows.
FallbackCatch(t) ==
  /\ UNCHANGED <<endpointVars, compareVars, registryVars, rejection, warnings>>
  /\ phase = "tiebreak"
  /\ task[t].st = "inflight"
  /\ ~trySend_retryBudget(task[t].attempt, retries)
  /\ errors' = Append(errors, task[t].provider)
  /\ task' = [task EXCEPT ![t] = Settle(@, "rejected")]
  /\ UNCHANGED <<providers, nodeQuorumThreshold, retries, method, params, phase,
                 quorumThreshold, fallbackProviders, heap, returned, retried,
                 dispatched, outcome, resultRef>>

\* values.slice(1).every(([, output]) => compareRpcResults(method, values[0][1], output))
\* from slot k on: stops at the first false, a throw propagates.
\* (Only({e(x) : x \in {v}}) is e(v) with v evaluated once.)
Only(S) == CHOOSE x \in S : TRUE
RECURSIVE EveryEqual(_, _, _, _)
EveryEqual(m, h, k, q) ==
  IF k > q THEN [threw |-> FALSE, eq |-> TRUE, heap |-> h]
  ELSE Only({IF c.threw \/ ~c.eq THEN c ELSE EveryEqual(m, c.heap, k + 1, q) :
             c \in {compareRpcResults(m, h, 1, k)}})

\* acc.find(([existingResult]) => compareRpcResults(method, existingResult, result))
\* from entry i on: index of the first match (0 if none).
RECURSIVE FindMatch(_, _, _, _, _)
FindMatch(m, h, acc, i, r) ==
  IF i > Len(acc) THEN [threw |-> FALSE, idx |-> 0, heap |-> h]
  ELSE Only({IF c.threw THEN [threw |-> TRUE, idx |-> 0, heap |-> c.heap]
             ELSE IF c.eq THEN [threw |-> FALSE, idx |-> i, heap |-> c.heap]
             ELSE FindMatch(m, c.heap, acc, i + 1, r) :
             c \in {compareRpcResults(m, h, acc[i].ref, r)}})

\* [...values, ...fallbackValues].reduce(..., [[undefined, 0]]) from element j on.
RECURSIVE Tally(_, _, _, _, _)
Tally(m, h, acc, all, j) ==
  IF j > Len(all) THEN [threw |-> FALSE, counts |-> acc, heap |-> h]
  ELSE Only({IF f.threw THEN [threw |-> TRUE, counts |-> acc, heap |-> f.heap]
             ELSE Tally(m, f.heap,
                        IF f.idx # 0 THEN [acc EXCEPT ![f.idx].count = @ + 1]
                        ELSE Append(acc, [ref |-> all[j], count |-> 1]),
                        all, j + 1) :
             f \in {FindMatch(m, h, acc, 1, all[j])}})

RECURSIVE InsertDesc_unstable(_, _)
InsertDesc_unstable(sorted, e) ==
  IF sorted = <<>> THEN <<e>>
  ELSE IF Head(sorted).count > e.count THEN <<Head(sorted)>> \o InsertDesc_unstable(Tail(sorted), e)
  ELSE <<e>> \o sorted

\* counts.sort(([, a], [, b]) => b - a): stable, descending by count.
RECURSIVE InsertDesc(_, _)
InsertDesc(sorted, e) ==
  IF sorted = <<>> THEN <<e>>
  ELSE IF Head(sorted).count >= e.count THEN <<Head(sorted)>> \o InsertDesc(Tail(sorted), e)
  ELSE <<e>> \o sorted
RECURSIVE SortDesc(_)
SortDesc(cs) == IF cs = <<>> THEN <<>> ELSE InsertDesc(SortDesc(SubSeq(cs, 1, Len(cs) - 1)), cs[Len(cs)])

\* the two filters over [...values, ...fallbackValues] that evaluate
\* compareRpcResults(method, result, quorumResult) for every result.
\* eqs[i] is what the comparison of the i-th result gave.
RECURSIVE FilterPass(_, _, _, _, _)
FilterPass(m, h, all, j, qr) ==
  IF j > Len(all) THEN [threw |-> FALSE, heap |-> h, eqs |-> <<>>]
  ELSE Only({IF c.threw THEN [threw |-> TRUE, heap |-> c.heap, eqs |-> <<>>]
             ELSE Only({[threw |-> rest.threw, heap |-> rest.heap,
                         eqs |-> IF rest.threw THEN <<>> ELSE <<c.eq>> \o rest.eqs] :
                        rest \in {FilterPass(m, c.heap, all, j + 1, qr)}}) :
             c \in {compareRpcResults(m, h, all[j], qr)}})

Settled_eager(t) == task[t].st # "none"
\* a result of Promise.allSettled: the promise of task t has settled
Settled(t) == task[t].st \in {"fulfilled", "rejected"}
\* new Error(message): message and stack are own, non-enumerable properties
NewError(message) ==
  [name \in {"message", "stack"} |-> Prop(IF name = "message" THEN message ELSE Text("stack"), FALSE)]

\* the error a failed provider.send rejects with: an Error that carries its
\* code as an enumerable property
SendError ==
  [name \in {"message", "stack", "code"} |->
     IF name = "code" THEN Prop(Text("SERVER_ERROR"), TRUE)
     ELSE Prop(Text(IF name = "message" THEN "upstream" ELSE "stack"), FALSE)]

\* { ...a, ...b }: the own enumerable properties of a, then those of b
Enumerable(o) == {name \in DOMAIN o : o[name].enumerable}
Spread(a, b) ==
  [name \in Enumerable(a) \cup Enumerable(b) |->
     IF name \in Enumerable(b) THEN b[name] ELSE a[name]]

\* createSendErrorWithMessage: { ...sendError, ...new Error(message) }
createSendErrorWithMessage(message, sendError) == Spread(sendError, NewError(message))

\* the messages of send: errorTexts are formatted from `errors`,
\* successfulProviderUrls from the fulfilled required slots
formatMessage(t, slots) ==
  [text |-> t, failed |-> SeqRange(errors),
   succeeded |-> {task[i].provider : i \in {j \in slots : task[j].st = "fulfilled"}}]

\* what send throws for outcome o
Thrown(o) ==
  CASE o = "notEnough" ->
         createSendErrorWithMessage(formatMessage("Not enough providers succeeded", 1..quorumThreshold),
                                    SendError)
    [] o = "noQuorum" ->
         NewError(formatMessage("Not enough providers agreed to meet quorum", 1..quorumThreshold))
    [] o = "typeError" -> NewError(Text("TypeError"))
    [] OTHER -> NoRejection

Finish(o, r, h) ==
  /\ phase' = "settled"
  /\ outcome' = o
  /\ resultRef' = r
  /\ heap' = h
  /\ rejection' = Thrown(o)
  /\ UNCHANGED <<task, dispatched>>

\* Object.fromEntries(pairs): one property per key
RECURSIVE fromEntries(_, _)
fromEntries(obj, pairs) ==
  IF pairs = <<>> THEN obj
  ELSE fromEntries([k \in DOMAIN obj \cup {pairs[1][1]} |->
                      IF k = pairs[1][1] THEN pairs[1][2] ELSE obj[k]], Tail(pairs))
\* all.filter((_, i) => keep[i]), from element i on
RECURSIVE filter(_, _, _)
filter(all, keep, i) ==
  IF i > Len(all) THEN <<>>
  ELSE (IF keep[i] THEN <<all[i]>> ELSE <<>>) \o filter(all, keep, i + 1)

shouldWarn_onErrors(mismatchedProviders, errs) == Len(errs) > 0

\* Object.keys(mismatchedProviders).length > 0 || errors.length > 0
shouldWarn(mismatchedProviders, errs) ==
  DOMAIN mismatchedProviders # {} \/ Len(errs) > 0

\* the mismatch report of a call that reached quorum in the tie-break: eqs1
\* and eqs2 are the results of the two filters over all, h the objects
mismatchReport(all, eqs1, eqs2, h) ==
  LET mismatched == filter(all, [i \in DOMAIN eqs1 |-> ~eqs1[i]], 1)
      agreeing == filter(all, eqs2, 1)
      mismatchedProviders ==
        fromEntries(<<>>, [i \in DOMAIN mismatched |->
                             <<task[mismatched[i]].provider, h[mismatched[i]]>>])
      quorumProviders == [i \in DOMAIN agreeing |-> task[agreeing[i]].provider]
  IN IF shouldWarn(mismatchedProviders, errors)
     THEN <<[quorumProviders |-> quorumProviders,
             mismatchedProviders |-> mismatchedProviders,
             erroringProviders |-> errors]>>
     ELSE <<>>

\* the endpoints the tie-break wave is mapped over
tieBreakProviders_all(ps, q, fb) == SliceFrom(ps, q)
tieBreakProviders(ps, q, fb) == fb

\* Promise.allSettled over the required slots has resolved: send rejects if
\* a slot was rejected, resolves if all values equal the first, rejects if
\* no fallback is left, and otherwise starts every remaining fallback.
RequiredSettled ==
  /\ UNCHANGED <<endpointVars, compareVars, registryVars>>
  /\ phase = "dispatching"
  /\ \A t \in 1..quorumThreshold : Settled(t)
  /\ IF \E t \in 1..quorumThreshold : task[t].st = "rejected"
     THEN Finish("notEnough", 0, heap)
     ELSE LET e == EveryEqual(method, heap, 2, quorumThreshold)
              wave == tieBreakProviders(providers, quorumThreshold, fallbackProviders)
          IN IF e.threw THEN Finish("typeError", 0, e.heap)
             ELSE IF e.eq THEN Finish("resolved", 1, e.heap)
             ELSE IF Len(fallbackProviders) = 0 THEN Finish("noQuorum", 0, e.heap)
             ELSE /\ phase' = "tiebreak"
                  /\ heap' = e.heap
                  /\ task' = [t \in Slots |->
                                IF t > quorumThreshold /\ t <= quorumThreshold + Len(wave)
                                THEN Launch(wave[t - quorumThreshold]) ELSE task[t]]
                  /\ dispatched' = Bump(dispatched, wave)
                  /\ UNCHANGED <<outcome, resultRef, rejection>>
  /\ UNCHANGED <<providers, nodeQuorumThreshold, retries, method, params,
                 quorumThreshold, fallbackProviders, errors, returned, retried, warnings>>

FallbackTasks == (quorumThreshold + 1)..MaxProviders
Fulfilled(t) == task[t].st = "fulfilled"

\* [...values, ...fallbackValues]: the required results in slot order, then
\* the results of the fallbacks that were fulfilled, in list order.
AllValues == RangeSeq(1, quorumThreshold) \o SelectSeq(RangeSeq(quorumThreshold + 1, MaxProviders), Fulfilled)

quorumReached_any(count, q) == count >= 1
quorumReached(count, q) == ~(count < q)

counts0_full == <<[ref |-> 0, count |-> MaxProviders]>>

\* [[undefined, 0]]: what the reduce of the tally starts with
counts0 == <<[ref |-> 0, count |-> 0]>>

\* send from the tally to its end (lines 303-351): how it ends, with which
\* result, what the comparisons left of the objects and what was logged
tieBreak ==
  LET end(o, r, h, w) == [outcome |-> o, ref |-> r, heap |-> h, warned |-> w]
  IN Only({
       IF tl.threw THEN end("typeError", 0, tl.heap, <<>>)
       ELSE Only({
         IF ~quorumReached(top.count, quorumThreshold) THEN end("noQuorum", 0, tl.heap, <<>>)
         ELSE Only({
           IF f1.threw THEN end("typeError", 0, f1.heap, <<>>)
           ELSE Only({
             IF f2.threw THEN end("typeError", 0, f2.heap, <<>>)
             ELSE end("resolved", top.ref, f2.heap,
                      mismatchReport(AllValues, f1.eqs, f2.eqs, f2.heap)) :
             f2 \in {FilterPass(method, f1.heap, AllValues, 1, top.ref)}}) :
           f1 \in {FilterPass(method, tl.heap, AllValues, 1, top.ref)}}) :
         top \in {SortDesc(tl.counts)[1]}}) :
       tl \in {Tally(method, heap, counts0, AllValues, 1)}})

\* Promise.allSettled over the fallbacks has resolved: tally the results
\* into classes, take the largest, reject if it is below the quorum,
\* otherwise evaluate the mismatch report and resolve with its value.
FallbackSettled ==
  /\ UNCHANGED <<endpointVars, compareVars, registryVars>>
  /\ phase = "tiebreak"
  /\ \A t \in FallbackTasks : task[t].st # "none" => Settled(t)
  /\ \E end \in {tieBreak} :
       /\ Finish(end.outcome, end.ref, end.heap)
       /\ warnings' = warnings \o end.warned
  /\ UNCHANGED <<providers, nodeQuorumThreshold, retries, method, params,
                 quorumThreshold, fallbackProviders, errors, returned, retried>>

RouterNext ==
  \/ Send
  \/ \E t \in Slots : \E v \in StrResults \cup BlockResults : SendSucceeds(t, v)
  \/ \E t \in Slots : SendFailsRetry(t)
  \/ \E t \in Slots : DelayElapsed(t)
  \/ \E t \in Slots : TryWithFallbackCatch(t)
  \/ \E t \in Slots : FallbackCatch(t)
  \/ RequiredSettled
  \/ FallbackSettled

SpecRouter == RouterInit /\ [][RouterNext]_vars

\* ------------------------------------------------------------------------
\* CacheProvider.send over RateLimitedProvider.send
\* ------------------------------------------------------------------------
\* the router at rest (its state while one endpoint is studied)
RouterIdle ==
  /\ providers = <<1>>
  /\ nodeQuorumThreshold = 1
  /\ retries = 0
  /\ method = "eth_getLogs"
  /\ params = <<"filter">>
  /\ phase = "idle"
  /\ quorumThreshold = 0
  /\ fallbackProviders = <<>>
  /\ errors = <<>>
  /\ task = [t \in Slots |-> NoTask]
  /\ heap = [t \in Slots |-> Undefined]
  /\ returned = [t \in Slots |-> Undefined]
  /\ retried = FALSE
  /\ dispatched = [p \in Slots |-> 0]
  /\ outcome = "pending"
  /\ resultRef = 0
  /\ rejection = NoRejection
  /\ warnings = <<>>

EndpointInit ==
  /\ RouterIdle
  /\ CompareIdle
  /\ RegistryIdle
  /\ maxConcurrency \in 1..MaxConcurrency
  /\ redisClient \in BOOLEAN
  /\ queue = <<>>
  /\ numRunning = 0
  /\ pc = [c \in Callers |-> "idle"]
  /\ call = [c \in Callers |-> NoCall]
  /\ cacheable = [c \in Callers |-> FALSE]
  /\ result = [c \in Callers |-> NoResult]
  /\ reqs = [c \in Callers |-> NoReqs]
  /\ redisResult = [c \in Callers |-> Nil]
  /\ kv = [k \in Keys |-> Nil]
  /\ connection = [c \in Callers |-> TheUrl]
  /\ writer = {}
  /\ internalBlockNumber = NoBlockNumber
  /\ maxInternalBlockNumber = 0

\* shouldCache up to its await: "false", "throw" (inverted range) or
\* "blockNumber" (the block number has to be looked at).
shouldCachePrefix(cl) ==
  IF cl.method # "eth_getLogs" THEN "false"
  ELSE LET fromBlockNumber == parseInt16(cl.fromBlock)
           toBlockNumber == parseInt16(cl.toBlock)
       IN IF isNaN(fromBlockNumber) \/ isNaN(toBlockNumber) THEN "false"
          ELSE IF toBlockNumber < fromBlockNumber THEN "throw"
          ELSE "blockNumber"

shouldCacheResult_inclusive(cl, currentBlockNumber) ==
  parseInt16(cl.toBlock) <= currentBlockNumber - maxReorgDistance

\* shouldCache after its await: toBlockNumber < firstUnsafeBlockNumber
shouldCacheResult(cl, currentBlockNumber) ==
  parseInt16(cl.toBlock) < currentBlockNumber - maxReorgDistance

\* RateLimitedProvider.send: a task for the caller is pushed on the queue.
\* kind is "rpc" (the call itself) or "bn" (eth_blockNumber).
Push(c, kind, inBranch) ==
  /\ queue' = Append(queue, c)
  /\ pc' = [pc EXCEPT ![c] = IF kind = "bn" THEN "bnQueued" ELSE "rpcQueued"]
  /\ reqs' = [reqs EXCEPT ![c] = IF kind = "bn" THEN [@ EXCEPT !.bn = @ + 1]
                                                  ELSE [@ EXCEPT !.rpc = @ + 1]]
  /\ cacheable' = [cacheable EXCEPT ![c] = inBranch]

\* the rest of CacheProvider.send once shouldCache knows the block number
Decide(c, currentBlockNumber) ==
  IF shouldCacheResult(call[c], currentBlockNumber)
  THEN /\ pc' = [pc EXCEPT ![c] = "redisGet"]
       /\ cacheable' = [cacheable EXCEPT ![c] = TRUE]
       /\ UNCHANGED <<queue, reqs>>
  ELSE Push(c, "rpc", FALSE)

\* send settles with r: its frame (arguments and locals) is gone
Done(c, r) ==
  /\ pc' = [pc EXCEPT ![c] = "done"]
  /\ result' = [result EXCEPT ![c] = r]
  /\ call' = [call EXCEPT ![c] = NoCall]
  /\ cacheable' = [cacheable EXCEPT ![c] = FALSE]

\* CacheProvider.send is called: runs to its first suspension.
CallSend(c, cl) ==
  /\ pc[c] = "idle"
  /\ redisResult' = [redisResult EXCEPT ![c] = Nil]
  /\ IF ~redisClient \/ shouldCachePrefix(cl) = "false"
     THEN /\ Push(c, "rpc", FALSE)
          /\ call' = [call EXCEPT ![c] = cl]
          /\ result' = [result EXCEPT ![c] = NoResult]
     ELSE IF shouldCachePrefix(cl) = "throw"
     THEN \* shouldCache throws before anything is sent; the refused call
          \* stays in view until the caller takes the rejection
          /\ pc' = [pc EXCEPT ![c] = "done"]
          /\ call' = [call EXCEPT ![c] = cl]
          /\ result' = [result EXCEPT ![c] = Error("inverted")]
          /\ UNCHANGED <<queue, reqs, cacheable>>
     ELSE /\ pc' = [pc EXCEPT ![c] = "getBlockNumber"]
          /\ call' = [call EXCEPT ![c] = cl]
          /\ result' = [result EXCEPT ![c] = NoResult]
          /\ UNCHANGED <<queue, reqs, cacheable>>
  /\ UNCHANGED <<maxConcurrency, redisClient, connection, numRunning, kv, writer,
                 internalBlockNumber, maxInternalBlockNumber>>
  /\ UNCHANGED <<routerVars, compareVars, registryVars>>

\* _getInternalBlockNumber(BLOCK_NUMBER_TTL * 1000) finds a block number
\* younger than the TTL: no request is made.
BlockNumberCached(c) ==
  /\ pc[c] = "getBlockNumber"
  /\ internalBlockNumber.st = "fresh"
  /\ Decide(c, internalBlockNumber.blockNumber)
  /\ UNCHANGED <<maxConcurrency, redisClient, connection, numRunning, call, result, redisResult, kv, writer,
                 internalBlockNumber, maxInternalBlockNumber>>
  /\ UNCHANGED <<routerVars, compareVars, registryVars>>

\* _getInternalBlockNumber finds none (a failed fetch leaves none) or a
\* stale one: it performs
\* getBlockNumber, i.e. this.send("eth_blockNumber", []), which is not
\* cacheable and goes to the queue.  (While a fetch is pending the caller
\* waits for it.)
BlockNumberFetch(c) ==
  /\ pc[c] = "getBlockNumber"
  /\ internalBlockNumber.st \in {"none", "stale"}
  /\ internalBlockNumber' = [st |-> "pending", blockNumber |-> 0]
  /\ Push(c, "bn", FALSE)
  /\ UNCHANGED <<maxConcurrency, redisClient, connection, numRunning, call, result, redisResult, kv, writer,
                 maxInternalBlockNumber>>
  /\ UNCHANGED <<routerVars, compareVars, registryVars>>

process_guard_off_by_one(running, concurrency) == running <= concurrency

\* async/queue process(): a worker may start while numRunning < concurrency
process_guard(running, concurrency) == running < concurrency

queueShift_newest(q) == q[Len(q)]

\* the task process() takes: the one at the front of the queue, to whose
\* back push() appends
queueShift(q) == Head(q)

\* The queue starts its oldest task: the worker calls super.send, which
\* hands the request to the HTTP layer.
Admit ==
  /\ queue # <<>>
  /\ process_guard(numRunning, maxConcurrency)
  /\ LET c == queueShift(queue)
     IN pc' = [pc EXCEPT ![c] = IF pc[c] = "bnQueued" THEN "bnRunning" ELSE "rpcRunning"]
  /\ queue' = Tail(queue)
  /\ numRunning' = numRunning + 1
  /\ UNCHANGED <<maxConcurrency, redisClient, connection, call, cacheable, result, reqs, redisResult, kv, writer,
                 internalBlockNumber, maxInternalBlockNumber>>
  /\ UNCHANGED <<routerVars, compareVars, registryVars>>

Max(a, b) == IF a > b THEN a ELSE b

release_leak(running) == running

\* the worker's promise settles (`await super.send(...).then(resolve).catch(reject)`):
\* the queue takes the task out of its running count
release(running) == running - 1

\* The HTTP request of the caller's own call succeeds: the worker resolves
\* the task, which frees its slot.  Inside the cache branch the result is
\* still to be committed to the store.
HttpResolves(c, v) ==
  /\ pc[c] = "rpcRunning"
  /\ numRunning' = release(numRunning)
  /\ IF cacheable[c]
     THEN /\ pc' = [pc EXCEPT ![c] = "redisSet"]
          /\ result' = [result EXCEPT ![c] = Value(v)]
          /\ UNCHANGED <<call, cacheable>>
     ELSE Done(c, Value(v))
  /\ UNCHANGED <<maxConcurrency, redisClient, connection, queue, reqs, redisResult, kv, writer,
                 internalBlockNumber, maxInternalBlockNumber>>
  /\ UNCHANGED <<routerVars, compareVars, registryVars>>

\* The eth_blockNumber request succeeds with the endpoint's view b of the
\* head; _getInternalBlockNumber never lets its answer decrease, and
\* shouldCache continues with it.
BlockNumberResolves(c, b) ==
  /\ pc[c] = "bnRunning"
  /\ numRunning' = release(numRunning)
  /\ LET blockNumber == Max(b, maxInternalBlockNumber)
     IN /\ maxInternalBlockNumber' = blockNumber
        /\ internalBlockNumber' = [st |-> "fresh", blockNumber |-> blockNumber]
        /\ Decide(c, blockNumber)
  /\ UNCHANGED <<maxConcurrency, redisClient, connection, call, result, redisResult, kv, writer>>
  /\ UNCHANGED <<routerVars, compareVars, registryVars>>

\* An HTTP request fails: the worker rejects the task and frees the slot;
\* the error propagates out of CacheProvider.send.
HttpRejects(c) ==
  /\ pc[c] \in {"rpcRunning", "bnRunning"}
  /\ numRunning' = release(numRunning)
  /\ internalBlockNumber' = IF pc[c] = "bnRunning" THEN NoBlockNumber
                            ELSE internalBlockNumber
  /\ Done(c, Error("upstream"))
  /\ UNCHANGED <<maxConcurrency, redisClient, connection, queue, reqs, redisResult, kv, writer,
                 maxInternalBlockNumber>>
  /\ UNCHANGED <<routerVars, compareVars, registryVars>>

afterLookup_fallthrough(answer) == "upstream"

\* if (redisResult) return JSON.parse(redisResult); otherwise go upstream
afterLookup(answer) == IF answer # Nil THEN "return" ELSE "upstream"

\* redisClient.get(redisKey) answers: a stored string is parsed and
\* returned, otherwise the call goes upstream.
RedisGet(c) ==
  /\ pc[c] = "redisGet"
  /\ LET answer == kv[buildRedisKey(connection[c], call[c])]
     IN /\ redisResult' = [redisResult EXCEPT ![c] = answer]
        /\ IF afterLookup(answer) = "return"
           THEN /\ Done(c, Value(JSONparse(answer)))
                /\ UNCHANGED <<queue, reqs>>
           ELSE /\ Push(c, "rpc", TRUE)
                /\ UNCHANGED <<result, call>>
  /\ UNCHANGED <<maxConcurrency, redisClient, connection, numRunning, kv, writer,
                 internalBlockNumber, maxInternalBlockNumber>>
  /\ UNCHANGED <<routerVars, compareVars, registryVars>>

setRedisKey_dropped(store, key, str) == store

\* setRedisKey(key, val, redisClient, expirySeconds): the store holds val
\* under key (until CacheExpires)
setRedisKey(store, key, str) == [store EXCEPT ![key] = str]

\* setRedisKey(redisKey, JSON.stringify(result), ...) then return result
RedisSet(c) ==
  /\ pc[c] = "redisSet"
  /\ kv' = setRedisKey(kv, buildRedisKey(connection[c], call[c]), JSONstringify(result[c].v))
  /\ writer' = {w \in writer : w[1] # buildRedisKey(connection[c], call[c])}
                  \cup {<<buildRedisKey(connection[c], call[c]), connection[c]>>}
  /\ Done(c, result[c])
  /\ UNCHANGED <<maxConcurrency, redisClient, connection, queue, numRunning,
                 reqs, redisResult, internalBlockNumber, maxInternalBlockNumber>>
  /\ UNCHANGED <<routerVars, compareVars, registryVars>>

\* the caller has consumed the settled promise and may call again
Return(c) ==
  /\ pc[c] = "done"
  /\ pc' = [pc EXCEPT ![c] = "idle"]
  /\ call' = [call EXCEPT ![c] = NoCall]
  /\ cacheable' = [cacheable EXCEPT ![c] = FALSE]
  /\ result' = [result EXCEPT ![c] = NoResult]
  /\ reqs' = [reqs EXCEPT ![c] = NoReqs]
  /\ redisResult' = [redisResult EXCEPT ![c] = Nil]
  /\ UNCHANGED <<maxConcurrency, redisClient, connection, queue, numRunning, kv, writer,
                 internalBlockNumber, maxInternalBlockNumber>>
  /\ UNCHANGED <<routerVars, compareVars, registryVars>>

\* BLOCK_NUMBER_TTL passes since the last block number response
BlockNumberAges ==
  /\ internalBlockNumber.st = "fresh"
  /\ internalBlockNumber' = [internalBlockNumber EXCEPT !.st = "stale"]
  /\ UNCHANGED <<maxConcurrency, redisClient, connection, queue, numRunning, pc, call, cacheable,
                 result, reqs, redisResult, kv, writer, maxInternalBlockNumber>>
  /\ UNCHANGED <<routerVars, compareVars, registryVars>>

\* PROVIDER_CACHE_TTL passes since key k was set
CacheExpires(k) ==
  /\ kv[k] # Nil
  /\ kv' = [kv EXCEPT ![k] = Nil]
  /\ writer' = {w \in writer : w[1] # k}
  /\ UNCHANGED <<maxConcurrency, redisClient, connection, queue, numRunning, pc, call, cacheable,
                 result, reqs, redisResult, internalBlockNumber, maxInternalBlockNumber>>
  /\ UNCHANGED <<routerVars, compareVars, registryVars>>

EndpointNext ==
  \/ \E c \in Callers : \E cl \in EndpointCalls : CallSend(c, cl)
  \/ \E c \in Callers : BlockNumberCached(c)
  \/ \E c \in Callers : BlockNumberFetch(c)
  \/ Admit
  \/ \E c \in Callers : \E v \in LogResults : HttpResolves(c, v)
  \/ \E c \in Callers : \E b \in HeadReports : BlockNumberResolves(c, b)
  \/ \E c \in Callers : HttpRejects(c)
  \/ \E c \in Callers : RedisGet(c)
  \/ \E c \in Callers : RedisSet(c)
  \/ \E c \in Callers : Return(c)
  \/ BlockNumberAges
  \/ \E k \in Keys : CacheExpires(k)

SpecEndpoint == EndpointInit /\ [][EndpointNext]_vars


\* ------------------------------------------------------------------------
\* Properties of RetryProvider.send
\* ------------------------------------------------------------------------
\* The result-equality relation as specified: deep equality, the miner
\* field left out for eth_getBlockByNumber.
SameResult(m, a, b) ==
  IF m = "eth_getBlockByNumber" THEN a.kind = b.kind /\ a.body = b.body ELSE a = b

Required == 1..quorumThreshold
Succeeded == {t \in Slots : Fulfilled(t)}
Agreeing(r) == {t \in Succeeded : t = r \/ SameResult(method, returned[t], Deref(returned, r))}
EndpointsOf(ts) == {task[t].provider : t \in ts}
Failed == SeqRange(errors)
TieBreakRan == \E t \in Slots : t > quorumThreshold /\ task[t].st # "none"

\* C2: whenever send resolves with a value, at least Q distinct endpoints
\* returned, during the call, a result equal to that value.
C2_ResolvedHasQuorum ==
  outcome = "resolved" =>
    /\ resultRef \in Succeeded
    /\ Cardinality(EndpointsOf(Agreeing(resultRef))) >= quorumThreshold

\* C2 witness: a call with Q >= 2 resolved through the tie-break wave.
C2_Witness ==
  /\ outcome = "resolved"
  /\ quorumThreshold >= 2
  /\ \E t \in Succeeded : t > quorumThreshold
  /\ \E t \in Succeeded : ~SameResult(method, returned[t], returned[resultRef])

\* C3: within one call _trySend is started at most once on any endpoint,
\* across the required wave, the promotions and the tie-break wave.
C3_NoEndpointTwice == \A p \in Slots : dispatched[p] <= 1

\* C3 witness: a fallback was promoted into a required slot and the
\* tie-break wave ran afterwards on what was left of the deque.
C3_Witness ==
  /\ phase = "settled"
  /\ \E t \in Required : task[t].provider > quorumThreshold
  /\ TieBreakRan

\* C4: a settled call has resolved, or was rejected with one of the two
\* quorum errors; nothing else escapes.
C4_ThreeOutcomes == phase = "settled" => outcome \in {"resolved", "notEnough", "noQuorum"}

\* C6: no endpoint is sent to more than retries + 1 times in one call:
\* _trySend runs at most once on an endpoint and the ordinal of the send it
\* has in flight never exceeds retries + 1.
C6_AttemptsBounded ==
  /\ \A p \in Slots : dispatched[p] <= 1
  /\ \A t \in Slots : task[t].attempt <= retries + 1

\* C6 witness: an endpoint is on its last attempt, after retries.
C6_Witness == retries >= 1 /\ \E t \in Slots : task[t].st = "inflight" /\ task[t].attempt = retries + 1

FirstQAgreeFirstTry ==
  \A t \in Required :
    /\ Fulfilled(t)
    /\ task[t].provider = t
    /\ ~retried
    /\ SameResult(method, returned[t], returned[1])

\* C7: when the first Q endpoints all succeed on their first attempt with
\* equal results, send resolves with the first endpoint's result after
\* exactly Q upstream calls, none of them to an endpoint past the first Q.
C7_SteadyState ==
  (phase = "settled" /\ FirstQAgreeFirstTry) =>
    /\ outcome = "resolved"
    /\ resultRef = 1
    /\ \A p \in Slots : dispatched[p] = (IF p <= quorumThreshold THEN 1 ELSE 0)

LargestClass == CHOOSE c \in 0..MaxProviders :
  /\ \A t \in Succeeded : Cardinality(Agreeing(t)) <= c
  /\ c = 0 \/ \E t \in Succeeded : Cardinality(Agreeing(t)) = c
RequiredDisagree ==
  /\ \A t \in Required : Fulfilled(t)
  /\ \E t \in Required : ~SameResult(method, returned[t], returned[1])

\* C9: when all required slots succeed but disagree, every remaining
\* fallback is dispatched and send resolves with the value of the largest
\* class iff that class has at least Q members, else rejects with
\* quorum-not-met.
C9_TieBreak ==
  (phase = "settled" /\ RequiredDisagree) =>
    /\ \A i \in DOMAIN fallbackProviders : dispatched[fallbackProviders[i]] = 1
    /\ IF LargestClass >= quorumThreshold
       THEN outcome = "resolved" /\ Cardinality(Agreeing(resultRef)) = LargestClass
       ELSE outcome = "noQuorum"

\* a required slot whose last attempt has just been dealt with by the catch
\* handler of tryWithFallback
SlotFailedNow(t) ==
  /\ phase = "dispatching"
  /\ task[t].st = "inflight"
  /\ errors' = Append(errors, task[t].provider)

C8_Retarget ==
  \A t \in Slots : SlotFailedNow(t) =>
    IF fallbackProviders # <<>>
    THEN /\ task'[t] = Launch(Head(fallbackProviders))
         /\ fallbackProviders' = Tail(fallbackProviders)
         /\ \A i \in DOMAIN fallbackProviders' : fallbackProviders'[i] > Head(fallbackProviders)
    ELSE task'[t].st = "rejected"
C8_FinalOnlyWhenEmpty ==
  \A t \in Slots : (task[t].st # "rejected" /\ task'[t].st = "rejected" /\ phase = "dispatching")
                     => fallbackProviders = <<>>
C8_RejectIff ==
  phase = "settled" => (outcome = "notEnough" <=> \E t \in Required : task[t].st = "rejected")
C8_Scenario ==
  (/\ phase = "settled" /\ quorumThreshold = 2 /\ Len(providers) = 3
   /\ errors = <<1>> /\ Succeeded = {1, 2}
   /\ returned[1] = Str("0x10") /\ returned[2] = Str("0x10"))
  => (outcome = "resolved" /\ returned[resultRef] = Str("0x10") /\ task[1].provider = 3)

\* C8: a required slot whose endpoint failed for good is retargeted to the
\* front fallback (the most preferred one left) and tried again; it is
\* rejected only when the deque is empty at that moment; and send rejects
\* with not-enough-providers-succeeded iff some required slot was rejected.
C8_FallbackPromotion ==
  /\ [][C8_Retarget /\ C8_FinalOnlyWhenEmpty]_vars
  /\ [](C8_RejectIff /\ C8_Scenario)

\* C8 witness: Q = 2 on A,B,C; A failed, C was consumed for A's slot and
\* the call resolved "0x10".
C8_Witness ==
  /\ phase = "settled" /\ quorumThreshold = 2 /\ Len(providers) = 3
  /\ errors = <<1>> /\ task[1].provider = 3
  /\ outcome = "resolved" /\ returned[resultRef] = Str("0x10")

C10_OneAfterAnother ==
  (quorumThreshold = 1 /\ phase # "idle") =>
    /\ outcome # "noQuorum"
    /\ \A p \in Slots : dispatched[p] > 0 =>
         /\ p = task[1].provider \/ p \in Failed
         /\ \A p2 \in 1..(p - 1) : p2 \in Failed
    /\ outcome = "resolved" => (resultRef = 1 /\ Fulfilled(1) /\ Succeeded = {1})
C10_NothingAfterSuccess ==
  (quorumThreshold = 1 /\ Fulfilled(1)) => (dispatched' = dispatched /\ task' = task)

\* C10: with Q = 1 the endpoints are tried in preference order, each only
\* after the previous one failed for good; send resolves with the result
\* of the first one that succeeds, queries nothing after a success and
\* never rejects with quorum-not-met.
C10_QuorumOne == []C10_OneAfterAnother /\ [][C10_NothingAfterSuccess]_vars

\* C10 witness: a Q = 1 call resolved by a fallback after the preferred
\* endpoint failed.
C10_Witness ==
  quorumThreshold = 1 /\ outcome = "resolved" /\ task[1].provider >= 2 /\ Len(fallbackProviders) >= 1

\* ------------------------------------------------------------------------
\* Properties of RateLimitedProvider and CacheProvider
\* ------------------------------------------------------------------------
\* requests handed to the underlying HTTP send and not yet settled
InFlight == {c \in Callers : pc[c] \in {"rpcRunning", "bnRunning"}}
Waiting == {c \in Callers : pc[c] \in {"rpcQueued", "bnQueued"}}

\* C1: at most maxConcurrency requests of the endpoint are in flight at the
\* HTTP layer, block-number queries included; every other request handed
\* to RateLimitedProvider.send waits in the queue.
C1_ConcurrencyCeiling ==
  /\ Cardinality(InFlight) <= maxConcurrency
  /\ Waiting = SeqRange(queue)

\* C1 witness: the ceiling is reached with a block-number query in flight
\* while another caller's request waits in the queue.
C1_Witness ==
  /\ Cardinality(InFlight) = maxConcurrency
  /\ \E c \in InFlight : pc[c] = "bnRunning"
  /\ queue # <<>>

CacheHit(c) == redisResult[c] # Nil

\* C5 as claimed: a call answered from the KV store has issued no upstream
\* request at all, the ones of its cacheability decision included.
C5_HitZeroUpstream ==
  \A c \in Callers : CacheHit(c) =>
    /\ pc[c] = "done"
    /\ result[c] = Value(JSONparse(redisResult[c]))
    /\ reqs[c].rpc + reqs[c].bn = 0

\* C5 amended: a call answered from the KV store returns the stored value
\* and never sends its own request upstream; its cacheability decision
\* sends at most one eth_blockNumber request.
C5_HitNoCallUpstream ==
  \A c \in Callers : CacheHit(c) =>
    /\ pc[c] = "done"
    /\ result[c] = Value(JSONparse(redisResult[c]))
    /\ reqs[c].rpc = 0
    /\ reqs[c].bn <= 1

\* C5 witness: a cache hit whose cacheability decision had to fetch the
\* block number from upstream.
C5_Witness == \E c \in Callers : CacheHit(c) /\ reqs[c].bn = 1 /\ result[c].v \in LogResults

\* ------------------------------------------------------------------------
\* Further properties of RetryProvider.send
\* ------------------------------------------------------------------------
FullQuorum == phase # "idle" /\ quorumThreshold = Len(providers)

\* C11: when the quorum of a call equals the number of endpoints there is
\* no fallback, no endpoint is ever promoted, and once any endpoint has
\* failed all its attempts send rejects with not-enough-providers-succeeded
\* whatever the other endpoints returned.
C11_FullQuorumNoFallback ==
  FullQuorum =>
    /\ fallbackProviders = <<>>
    /\ \A t \in Required : task[t].provider = t
    /\ phase # "tiebreak"
    /\ (phase = "settled" /\ (\E t \in Required : task[t].st = "rejected"))
          => outcome = "notEnough"

\* C11 witness: three endpoints, quorum three, one of them failed after its
\* retries while the two others answered.
C11_Witness ==
  /\ FullQuorum
  /\ quorumThreshold = 3
  /\ retries >= 1
  /\ outcome = "notEnough"
  /\ Cardinality({t \in Required : task[t].st = "rejected"}) = 1
  /\ Cardinality({t \in Required : Fulfilled(t)}) = 2

\* ------------------------------------------------------------------------
\* RetryProvider._getQuorum over the forms a call can take
\* ------------------------------------------------------------------------
\* Calls by method and block tag: a numeric tag, "latest", "pending", or
\* (eth_call) no block-tag parameter at all.
QuorumCalls ==
  { [method |-> "eth_getLogs", params |-> <<"filter">>],
    [method |-> "eth_getBlockByNumber", params |-> <<"0x10", "false">>],
    [method |-> "eth_getBlockByNumber", params |-> <<"latest", "false">>],
    [method |-> "eth_getBlockByNumber", params |-> <<"pending", "false">>],
    [method |-> "eth_call", params |-> <<"tx", "0x10">>],
    [method |-> "eth_call", params |-> <<"tx", "latest">>],
    [method |-> "eth_call", params |-> <<"tx", "pending">>],
    [method |-> "eth_call", params |-> <<"tx">>],
    [method |-> "eth_getBalance", params |-> <<"address", "0x10">>],
    [method |-> "eth_blockNumber", params |-> <<>>] }

QuorumInit == Constructed(QuorumCalls)

\* send runs up to its first await, which computes the quorum of the call
QuorumNext == Send

SpecQuorum == QuorumInit /\ [][QuorumNext]_vars

\* the block tag of the call: params[0] of eth_getBlockByNumber, params[1]
\* of eth_call
BlockTag ==
  IF method = "eth_getBlockByNumber" THEN ParamAt(params, 0)
  ELSE IF method = "eth_call" THEN ParamAt(params, 1)
  ELSE "none"
NumericTags == {"0x10"}

\* C12: the quorum of a call is nodeQuorumThreshold for eth_getLogs, for
\* eth_getBlockByNumber with a numeric tag and for eth_call with a numeric
\* tag as second parameter; it is 1 for these two with "latest" and for
\* every other method.
C12_QuorumTable ==
  phase # "idle" =>
    /\ method = "eth_getLogs" => quorumThreshold = nodeQuorumThreshold
    /\ (method \in {"eth_getBlockByNumber", "eth_call"} /\ BlockTag \in NumericTags)
          => quorumThreshold = nodeQuorumThreshold
    /\ (method \in {"eth_getBlockByNumber", "eth_call"} /\ BlockTag = "latest")
          => quorumThreshold = 1
    /\ method \notin {"eth_getLogs", "eth_getBlockByNumber", "eth_call"}
          => quorumThreshold = 1

\* C12 witness: an eth_call at a numeric block was given a quorum above 1.
C12_Witness ==
  /\ phase # "idle"
  /\ method = "eth_call"
  /\ BlockTag \in NumericTags
  /\ nodeQuorumThreshold >= 2
  /\ quorumThreshold = nodeQuorumThreshold

\* C13: every head- or mempool-dependent form of eth_getBlockByNumber and
\* eth_call (tag "latest", "pending", or no tag parameter) has quorum 1.
C13_HeadDependentQuorumOne ==
  (/\ phase # "idle"
   /\ method \in {"eth_getBlockByNumber", "eth_call"}
   /\ BlockTag \in {"latest", "pending", "undefined"})
    => quorumThreshold = 1

\* ------------------------------------------------------------------------
\* compareRpcResults on its own
\* ------------------------------------------------------------------------
\* Results handed to one comparison: for eth_getBlockByNumber a block
\* object (with or without a miner entry) or null; for another method any
\* of these or a string.
NoMinerBlock == Obj("0x1", "absent")
CompareMethods == {"eth_getBlockByNumber", "eth_getLogs"}
CompareResults(m) ==
  IF m = "eth_getBlockByNumber" THEN BlockResults \cup {NoMinerBlock}
  ELSE BlockResults \cup {NoMinerBlock, Str("0x10")}

\* Two result objects on the heap and a call compareRpcResults(method, a, b)
\* whose arguments are these objects, possibly twice the same one.
CompareInit ==
  /\ EndpointIdle
  /\ RegistryIdle
  /\ providers = <<1>>
  /\ nodeQuorumThreshold = 1
  /\ retries = 0
  /\ method \in CompareMethods
  /\ params = <<>>
  /\ phase = "idle"
  /\ quorumThreshold = 0
  /\ fallbackProviders = <<>>
  /\ errors = <<>>
  /\ task = [t \in Slots |-> NoTask]
  /\ \E a, b \in CompareResults(method) :
        heap = [t \in Slots |-> IF t = 1 THEN a ELSE IF t = 2 THEN b ELSE Undefined]
  /\ returned = heap
  /\ retried = FALSE
  /\ dispatched = [p \in Slots |-> 0]
  /\ outcome = "pending"
  /\ resultRef = 0
  /\ rejection = NoRejection
  /\ warnings = <<>>
  /\ rpcResultA \in 1..2
  /\ rpcResultB \in 1..2
  /\ compared = "none"

\* what a call of compareRpcResults ended with
Verdict(c) == IF c.threw THEN "threw" ELSE IF c.eq THEN "true" ELSE "false"

\* compareRpcResults(method, rpcResultA, rpcResultB) runs
Compare ==
  /\ compared = "none"
  /\ LET c == compareRpcResults(method, heap, rpcResultA, rpcResultB)
     IN /\ compared' = Verdict(c)
        /\ heap' = c.heap
  /\ UNCHANGED <<providers, nodeQuorumThreshold, retries, method, params, phase,
                 quorumThreshold, fallbackProviders, errors, task, returned, retried,
                 dispatched, outcome, resultRef, rejection, warnings, rpcResultA, rpcResultB>>
  /\ UNCHANGED <<endpointVars, registryVars>>

CompareNext == Compare

SpecCompare == CompareInit /\ [][CompareNext]_vars

\* C14: the comparison answers deep structural equality of the two results,
\* the miner entries left out for eth_getBlockByNumber and nothing left out
\* for any other method.
C14_DeepEqualityExceptMiner ==
  compared # "none" =>
    compared = (IF SameResult(method, returned[rpcResultA], returned[rpcResultB])
                THEN "true" ELSE "false")

\* C15: a comparison that returned leaves both inputs with the keys and
\* values they had before, also when both are the same object.
C15_InputsRestored ==
  compared \in {"true", "false"} => heap = returned

\* C16: the comparison is reflexive (a result compared with itself or with
\* an equal result gives true) and symmetric (swapping the arguments gives
\* the same answer).
C16_ReflexiveSymmetric ==
  compared # "none" =>
    /\ returned[rpcResultA] = returned[rpcResultB] => compared = "true"
    /\ compared = Verdict(compareRpcResults(method, returned, rpcResultB, rpcResultA))

\* ------------------------------------------------------------------------
\* Further properties of CacheProvider.send
\* ------------------------------------------------------------------------
redisKey(c) == buildRedisKey(connection[c], call[c])
Steps(c) == pc'[c] # pc[c]
Writes(c) == pc[c] = "redisSet" /\ Steps(c)
Hits(c) == pc[c] = "redisGet" /\ Steps(c) /\ kv[redisKey(c)] # Nil

\* C17 as claimed: a cacheable miss that succeeded upstream writes its
\* result under the key of the call, and an invocation that then finds the
\* key returns the stored result with no upstream request at all.
C17_RepeatZeroTraffic ==
  [][\A c \in Callers :
       /\ Writes(c) => kv'[redisKey(c)] = JSONstringify(result[c].v)
       /\ Hits(c) => /\ pc'[c] = "done"
                     /\ result'[c] = Value(JSONparse(kv[redisKey(c)]))
                     /\ reqs'[c] = NoReqs]_vars

\* C17 amended: the miss went upstream once and writes its result under the
\* key of the call; an invocation that then finds the key returns what the
\* key holds without sending the call upstream, its cacheability decision
\* having sent at most one eth_blockNumber request; the store holds only
\* results that upstream returned.
C17_WriteThenHit ==
  /\ [][\A c \in Callers :
         /\ Writes(c) => /\ reqs[c].rpc = 1
                         /\ result[c].kind = "value"
                         /\ kv'[redisKey(c)] = JSONstringify(result[c].v)
                         /\ JSONparse(kv'[redisKey(c)]) = result[c].v
                         /\ result'[c] = result[c]
         /\ Hits(c) => /\ pc'[c] = "done"
                       /\ result'[c] = Value(JSONparse(kv[redisKey(c)]))
                       /\ reqs'[c].rpc = 0
                       /\ reqs'[c].bn <= 1
                       /\ kv' = kv]_vars
  /\ [](\A k \in Keys : kv[k] # Nil => \E v \in LogResults : kv[k] = JSONstringify(v))

\* C17 witness: a repeat call was answered from the store with no upstream
\* request at all (the block number was still fresh).
C17_Witness ==
  \E c \in Callers : \E k \in Keys :
    /\ pc[c] = "done"
    /\ kv[k] # Nil
    /\ redisResult[c] = kv[k]
    /\ result[c] = Value(JSONparse(kv[k]))
    /\ reqs[c] = NoReqs

\* shouldCache has the block number and send acts on its answer
Decides(c) == pc[c] \in {"getBlockNumber", "bnRunning"} /\ pc'[c] \in {"redisGet", "rpcQueued"}

\* C18: a call whose toBlock equals currentBlockNumber - maxReorgDistance is
\* not cacheable: it goes upstream and the store is neither read nor
\* written for it; the call is cacheable exactly when toBlock is strictly
\* below that number.
C18_BoundaryNotCacheable ==
  /\ [][\A c \in Callers :
         /\ Decides(c) =>
              LET toBlockNumber == parseInt16(call[c].toBlock)
                  currentBlockNumber == internalBlockNumber'.blockNumber
              IN /\ toBlockNumber = currentBlockNumber - maxReorgDistance
                      => /\ pc'[c] = "rpcQueued"
                         /\ ~cacheable'[c]
                         /\ reqs'[c].rpc = 1
                         /\ kv' = kv
                 /\ pc'[c] = "redisGet" <=> toBlockNumber < currentBlockNumber - maxReorgDistance
         /\ (pc[c] = "rpcRunning" /\ ~cacheable[c] /\ Steps(c))
              => pc'[c] = "done" /\ kv' = kv]_vars
  /\ [](\A c \in Callers : pc[c] \in {"redisGet", "redisSet"} => cacheable[c])

\* C18 witness: the block number is maxReorgDistance past the toBlock of a
\* call, which waits for its upstream request outside the cache branch.
C18_Witness ==
  \E c \in Callers :
    /\ redisClient
    /\ pc[c] = "rpcQueued"
    /\ ~cacheable[c]
    /\ reqs[c].rpc = 1
    /\ shouldCachePrefix(call[c]) = "blockNumber"
    /\ internalBlockNumber.st = "fresh"
    /\ parseInt16(call[c].toBlock) = internalBlockNumber.blockNumber - maxReorgDistance

\* block-range endpoints written as hexadecimal integers
HexIntegers == {"0x0", "0x1", "0x2"}
InvertedRange(cl) ==
  /\ cl.method = "eth_getLogs"
  /\ cl.fromBlock \in HexIntegers /\ cl.toBlock \in HexIntegers
  /\ parseInt16(cl.fromBlock) > parseInt16(cl.toBlock)

\* C19: a call with fromBlock above toBlock fails with an error and is never
\* sent upstream, with or without a KV-cache handle.
C19_InvertedRangeFails ==
  \A c \in Callers : InvertedRange(call[c]) =>
    /\ pc[c] = "done"
    /\ result[c].kind = "error"
    /\ reqs[c] = NoReqs

\* not cacheable whatever the head is, and no inverted range
Uncacheable(cl) ==
  /\ cl # NoCall
  /\ ~InvertedRange(cl)
  /\ \/ ~redisClient
     \/ cl.method # "eth_getLogs"
     \/ cl.fromBlock \notin HexIntegers
     \/ cl.toBlock \notin HexIntegers

\* C20: a call that is not cacheable for a reason other than an inverted
\* range (no handle, another method, a block tag that is no hexadecimal
\* integer, a toBlock not below the reorg horizon) is handed once to the
\* rate-limited upstream; send raises no error of its own and neither
\* reads nor writes the store.
C20_UncacheablePassesThrough ==
  \A c \in Callers :
    /\ Uncacheable(call[c]) => /\ pc[c] \in {"rpcQueued", "rpcRunning"}
                               /\ result[c].kind # "error"
    /\ (pc[c] \in {"rpcQueued", "rpcRunning"} /\ ~cacheable[c])
         => /\ reqs[c].rpc = 1
            /\ redisResult[c] = Nil

\* ------------------------------------------------------------------------
\* CacheProvider.send of one caller over later blocks and block tags
\* ------------------------------------------------------------------------
FirstCaller == CHOOSE c \in Callers : \A d \in Callers : c <= d

RangeInit == EndpointInit

RangeNext ==
  \/ \E cl \in RangeCalls : CallSend(FirstCaller, cl)
  \/ BlockNumberCached(FirstCaller)
  \/ BlockNumberFetch(FirstCaller)
  \/ Admit
  \/ \E v \in LogResults : HttpResolves(FirstCaller, v)
  \/ \E b \in RangeReports : BlockNumberResolves(FirstCaller, b)
  \/ RedisGet(FirstCaller)
  \/ RedisSet(FirstCaller)
  \/ Return(FirstCaller)
  \/ BlockNumberAges

SpecRange == RangeInit /\ [][RangeNext]_vars

\* The chain's true head is at least every block number the endpoint has
\* reported, and it never decreases.
TrueHeads == maxInternalBlockNumber .. maxInternalBlockNumber + 1

\* The blocks a toBlock may denote on a chain whose head is h: a
\* hexadecimal integer denotes itself, "earliest" block 0, "latest" the
\* head, and "finalized" the newest finalized block, which is some block
\* up to the head.
BlockOf(tag, h) ==
  CASE tag \in {"0x0", "0x1", "0x2", "0xf"} -> {parseInt16(tag)}
    [] tag = "earliest" -> {0}
    [] tag = "finalized" -> 0..h
    [] OTHER -> {h}

\* C21: every entry written to the store is the result of an eth_getLogs
\* call whose toBlock is strictly below the true head at the time of the
\* write minus maxReorgDistance, whatever the true head (at least the
\* observed block number) is.
C21_WritesOlderThanHorizon ==
  [][\A c \in Callers :
       Writes(c) =>
         /\ call[c].method = "eth_getLogs"
         /\ \A h \in TrueHeads : \A toBlock \in BlockOf(call[c].toBlock, h) :
              toBlock < h - maxReorgDistance]_vars

\* ------------------------------------------------------------------------
\* Order of admission by RateLimitedProvider
\* ------------------------------------------------------------------------
Enqueued(c) == pc[c] \notin {"bnQueued", "rpcQueued"} /\ pc'[c] \in {"bnQueued", "rpcQueued"}
Admitted(c) == pc[c] \in {"bnQueued", "rpcQueued"} /\ pc'[c] \in {"bnRunning", "rpcRunning"}

\* C22: requests to one RateLimitedProvider are handed to the HTTP layer in
\* the order they were enqueued: a request joins the back of the queue, the
\* request admitted is the one at the front, and no request is admitted
\* while an earlier one waits.
C22_FifoAdmission ==
  [][/\ \A c \in Callers :
          /\ Enqueued(c) => queue' = Append(queue, c)
          /\ Admitted(c) => /\ c = Head(queue)
                            /\ queue' = Tail(queue)
                            /\ \A i \in 2..Len(queue) : pc'[queue[i]] = pc[queue[i]]
     /\ queue' # queue => \E c \in Callers : Enqueued(c) \/ Admitted(c)]_vars

\* C22 witness: of two requests that waited, the one enqueued first has
\* been admitted and the other is still in the queue although a worker is
\* free.
C22_Witness ==
  \E a \in Callers : \E b \in Callers :
    /\ a # b
    /\ pc[a] \in {"bnRunning", "rpcRunning"}
    /\ queue = <<b>>
    /\ process_guard(numRunning, maxConcurrency)

\* ------------------------------------------------------------------------
\* new RetryProvider(...) on arbitrary arguments, followed by a send
\* ------------------------------------------------------------------------
QuorumStrings == {"0", "1", "2", "3", "1.5", "-1", "abc"}
RetriesStrings == {"0", "1", "0.5", "-1", "abc"}
DelayStrings == {"0", "1", "0.5", "-1", "abc"}

ConstructInit ==
  /\ EndpointIdle
  /\ CompareIdle
  /\ processEnv = NoEnv
  /\ providerCache = [k \in ProviderCacheKeys |-> 0]
  /\ getp = [c \in Callers |-> NoGet]
  /\ throttle = NoThrottle
  /\ \E n \in 0..MaxProviders : \E q \in QuorumStrings :
       \E r \in RetriesStrings : \E d \in DelayStrings :
         constructorArgs = [n |-> n, nodeQuorumThreshold |-> Number(q),
                            retries |-> Number(r), delay |-> Number(d)]
  /\ providers = <<>>
  /\ nodeQuorumThreshold = 0
  /\ retries = 0
  /\ \E c \in QuorumCalls : method = c.method /\ params = c.params
  /\ phase = "new"
  /\ quorumThreshold = 0
  /\ fallbackProviders = <<>>
  /\ errors = <<>>
  /\ task = [t \in Slots |-> NoTask]
  /\ heap = [t \in Slots |-> Undefined]
  /\ returned = [t \in Slots |-> Undefined]
  /\ retried = FALSE
  /\ dispatched = [p \in Slots |-> 0]
  /\ outcome = "pending"
  /\ resultRef = 0
  /\ rejection = NoRejection
  /\ warnings = <<>>

\* the constructor runs: it throws, or the router exists
Construct ==
  /\ phase = "new"
  /\ LET a == constructorArgs
     IN IF constructorThrows(a.n, a.nodeQuorumThreshold, a.retries, a.delay)
        THEN /\ phase' = "threw"
             /\ UNCHANGED <<providers, nodeQuorumThreshold, retries>>
        ELSE /\ phase' = "idle"
             /\ providers' = RangeSeq(1, a.n)
             /\ nodeQuorumThreshold' = a.nodeQuorumThreshold.tenths \div 10
             /\ retries' = a.retries.tenths \div 10
  /\ UNCHANGED <<method, params, quorumThreshold, fallbackProviders, errors, task,
                 heap, returned, retried, dispatched, outcome, resultRef>>
  /\ UNCHANGED <<endpointVars, compareVars, registryVars, rejection, warnings>>

ConstructNext == Construct \/ Send

SpecConstruct == ConstructInit /\ [][ConstructNext]_vars

\* the arguments the claim names as refused
Refused(a) ==
  \/ a.nodeQuorumThreshold.nan \/ a.nodeQuorumThreshold.tenths % 10 # 0
  \/ a.nodeQuorumThreshold.tenths < 10
  \/ a.nodeQuorumThreshold.tenths > 10 * a.n
  \/ a.retries.nan \/ a.retries.tenths % 10 # 0 \/ a.retries.tenths < 0
  \/ (~a.delay.nan /\ a.delay.tenths < 0)

\* C26: construction fails when nodeQuorumThreshold is no integer, below 1
\* or above the number of endpoints, when retries is negative or no
\* integer, or when delay is negative; a constructed router has
\* 1 <= nodeQuorumThreshold <= |endpoints|, and the quorum computed by a
\* send is between 1 and |endpoints|.
C26_ConstructorRefuses ==
  /\ (phase # "new" /\ Refused(constructorArgs)) => phase = "threw"
  /\ phase \in {"idle", "dispatching"} =>
       /\ 1 <= nodeQuorumThreshold /\ nodeQuorumThreshold <= Len(providers)
       /\ retries >= 0
  /\ phase = "dispatching" =>
       1 <= quorumThreshold /\ quorumThreshold <= Len(providers)

\* C26 witness: a router built with nodeQuorumThreshold equal to the number
\* of its endpoints has computed that quorum for a send.
C26_Witness ==
  /\ phase = "dispatching"
  /\ Len(providers) >= 2
  /\ nodeQuorumThreshold = Len(providers)
  /\ quorumThreshold = Len(providers)

\* ------------------------------------------------------------------------
\* The provider registry: getProvider and getCachedProvider
\* ------------------------------------------------------------------------
\* Each caller makes one call.  A router is named by the caller whose
\* getProvider call constructed it.
NodeUrlEnvs ==
  { [NODE_URLS |-> "", NODE_URL |-> ""],
    [NODE_URLS |-> "", NODE_URL |-> "u0"],
    [NODE_URLS |-> "[]", NODE_URL |-> "u0"],
    [NODE_URLS |-> "[u1,u2]", NODE_URL |-> "u0"] }
NodeQuorumEnvs == {"", "2"}

RegistryInit ==
  /\ RouterIdle
  /\ EndpointIdle
  /\ CompareIdle
  /\ processEnv \in [urls : [Chains -> NodeUrlEnvs], NODE_QUORUM : NodeQuorumEnvs,
                      NODE_RETRIES : {""}, NODE_RETRY_DELAY : {""},
                      MAX_REORG_DISTANCE : {AllReorgDistances}]
  /\ providerCache = [k \in ProviderCacheKeys |-> 0]
  /\ getp = [c \in Callers |-> NoGet]
  /\ constructorArgs = NoArgs
  /\ throttle = NoThrottle

\* getProvider calls that wait for getRedis
Pending == {c \in Callers : getp[c].pc = "getRedis"}

\* getProvider(chainId, logger, useCache) is called: it suspends at
\* `await getRedis(logger)`.
CallGetProvider(c, chainId, useCache) ==
  /\ getp[c].pc = "idle"
  /\ getp' = [getp EXCEPT ![c] = [NoGet EXCEPT !.pc = "getRedis", !.fn = "getProvider",
                                               !.chainId = chainId, !.flag = useCache,
                                               !.among = Pending]]
  /\ UNCHANGED <<processEnv, providerCache, constructorArgs, throttle>>
  /\ UNCHANGED <<routerVars, endpointVars, compareVars>>

cachedProvider_ignored(cache, key, useCache) == 0

\* const cachedProvider = providerCache[key], looked at only if useCache
cachedProvider(cache, key, useCache) == IF useCache THEN cache[key] ELSE 0

setProviderCache_never(cache, key, useCache, provider) == cache

\* if (useCache) providerCache[key] = provider
setProviderCache(cache, key, useCache, provider) ==
  IF useCache THEN [cache EXCEPT ![key] = provider] ELSE cache

\* the arguments getProvider constructs the RetryProvider with
ArgsOf(env, urls) ==
  [n |-> Len(urls),
   nodeQuorumThreshold |-> Number(IF env.NODE_QUORUM # "" THEN env.NODE_QUORUM ELSE "1"),
   retries |-> Number(IF env.NODE_RETRIES # "" THEN env.NODE_RETRIES ELSE "2"),
   delay |-> Number(IF env.NODE_RETRY_DELAY # "" THEN env.NODE_RETRY_DELAY ELSE "1")]

\* getRedis answers (client: whether there is a redis client) and the rest
\* of getProvider runs without suspending: registry lookup, node URLs,
\* construction, registry insertion.
GetRedisResolves(c, client) ==
  /\ getp[c].pc = "getRedis"
  /\ LET chainId == getp[c].chainId
         useCache == getp[c].flag
         key == getProviderCacheKey(chainId, client)
         found == cachedProvider(providerCache, key, useCache)
         list == getNodeUrlList(processEnv, chainId)
         a == ArgsOf(processEnv, list.urls)
         settled == [getp[c] EXCEPT !.pc = "done", !.redis = client]
     IN IF found # 0
        THEN /\ getp' = [getp EXCEPT ![c] = [settled EXCEPT !.ret = found]]
             /\ UNCHANGED providerCache
        ELSE IF list.threw
                \/ cacheProviderThrows(processEnv, chainId)
                \/ constructorThrows(a.n, a.nodeQuorumThreshold, a.retries, a.delay)
        THEN /\ getp' = [getp EXCEPT ![c] = [settled EXCEPT !.threw = TRUE]]
             /\ UNCHANGED providerCache
        ELSE /\ getp' = [getp EXCEPT ![c] = [settled EXCEPT !.ret = c]]
             /\ providerCache' = setProviderCache(providerCache, key, useCache, c)
  /\ UNCHANGED <<processEnv, constructorArgs, throttle>>
  /\ UNCHANGED <<routerVars, endpointVars, compareVars>>

\* getCachedProvider(chainId, redisEnabled) runs (it does not suspend)
GetCachedProvider(c, chainId, redisEnabled) ==
  /\ getp[c].pc = "idle"
  /\ LET found == providerCache[getProviderCacheKey(chainId, redisEnabled)]
         settled == [NoGet EXCEPT !.pc = "done", !.fn = "getCachedProvider",
                                  !.chainId = chainId, !.flag = redisEnabled]
     IN getp' = [getp EXCEPT ![c] = IF found = 0 THEN [settled EXCEPT !.threw = TRUE]
                                    ELSE [settled EXCEPT !.ret = found]]
  /\ UNCHANGED <<processEnv, providerCache, constructorArgs, throttle>>
  /\ UNCHANGED <<routerVars, endpointVars, compareVars>>

RegistryNext ==
  \/ \E c \in Callers : \E ch \in Chains : \E useCache \in BOOLEAN :
       CallGetProvider(c, ch, useCache)
  \/ \E c \in Callers : \E client \in BOOLEAN : GetRedisResolves(c, client)
  \/ \E c \in Callers : \E ch \in Chains : \E redisEnabled \in BOOLEAN :
       GetCachedProvider(c, ch, redisEnabled)

SpecRegistry == RegistryInit /\ [][RegistryNext]_vars

\* a finished getProvider call that returned a router
Got(c) ==
  /\ getp[c].fn = "getProvider"
  /\ getp[c].pc = "done"
  /\ ~getp[c].threw
KeyOf(c) == getProviderCacheKey(getp[c].chainId, getp[c].redis)

\* C23: getProvider calls for one chain with useCache = true and the same
\* cache-enabled state construct at most one router between them and all
\* return that router, which is the one the registry holds under their key;
\* a call that finds the router in the registry constructs none.
C23_OneRouterPerKey ==
  /\ \A c \in Callers : \A d \in Callers :
       (Got(c) /\ Got(d) /\ getp[c].flag /\ getp[d].flag /\ KeyOf(c) = KeyOf(d))
         => /\ getp[c].ret = getp[d].ret
            /\ getp[c].ret # 0
            /\ c # d => (getp[c].ret # c \/ getp[d].ret # d)
  /\ \A c \in Callers :
       (Got(c) /\ getp[c].flag) => getp[c].ret = providerCache[KeyOf(c)]

\* C23 witness: two calls for one key that waited for getRedis at the same
\* time have both returned the router the first of them constructed.
C23_Witness ==
  \E c \in Callers : \E d \in Callers :
    /\ c # d
    /\ Got(c) /\ Got(d)
    /\ getp[c].flag /\ getp[d].flag
    /\ KeyOf(c) = KeyOf(d)
    /\ c \in getp[d].among
    /\ getp[c].ret = c
    /\ getp[d].ret = c

\* getCachedProvider(chainId) with its default redisEnabled is called by d
LooksUp(d, chainId) ==
  /\ getp[d].pc = "idle"
  /\ getp'[d].fn = "getCachedProvider"
  /\ getp'[d].chainId = chainId
  /\ getp'[d].flag

\* C24: once a getProvider(chainId) call with useCache = true has
\* succeeded, getCachedProvider(chainId) with default arguments does not
\* throw and returns the router that call returned, with or without a
\* redis client.
C24_CachedAfterGetProvider ==
  [][\A c \in Callers : \A d \in Callers :
       (Got(c) /\ getp[c].flag /\ LooksUp(d, getp[c].chainId))
         => /\ ~getp'[d].threw
            /\ getp'[d].ret = getp[c].ret]_vars

\* a getProvider call of c with useCache = false resumes after getRedis
ResumesUncached(c) ==
  /\ getp[c].pc = "getRedis"
  /\ ~getp[c].flag
  /\ getp'[c].pc = "done"

\* C25: the registry holds one router per (chain id, cache-enabled) key
\* and an entry, once inserted, is never replaced or removed;
\* getCachedProvider and getProvider with useCache = false leave the
\* registry as it is.
C25_RegistryEntriesStay ==
  [][/\ \A k \in ProviderCacheKeys : providerCache[k] # 0 => providerCache'[k] = providerCache[k]
     /\ \A c \in Callers :
          /\ (getp[c].pc = "idle" /\ getp'[c].fn = "getCachedProvider")
               => providerCache' = providerCache
          /\ ResumesUncached(c) => providerCache' = providerCache
     /\ DOMAIN providerCache' = ProviderCacheKeys]_vars

\* C25 witness: the registry holds a router under a key for which a
\* getProvider call with useCache = false has since constructed and
\* returned another one, and a lookup has returned the registered one.
C25_Witness ==
  \E c \in Callers : \E d \in Callers :
    /\ Got(c) /\ getp[c].flag /\ providerCache[KeyOf(c)] = c
    /\ \/ /\ Got(d) /\ ~getp[d].flag /\ KeyOf(d) = KeyOf(c)
          /\ c \in getp[d].among
          /\ getp[d].ret = d
       \/ /\ getp[d].fn = "getCachedProvider" /\ getp[d].ret = c

\* the chain has no usable node URL: neither variable is set, or NODE_URLS
\* parses to an empty list
NoNodeUrls(e) ==
  \/ e.NODE_URLS = "" /\ e.NODE_URL = ""
  \/ e.NODE_URLS = "[]"

\* C27: getNodeUrlList returns the NODE_URLS list when NODE_URLS is set,
\* otherwise the single NODE_URL, and throws when neither is set or when
\* NODE_URLS parses to an empty list; getProvider for such a chain fails
\* and no router is created or registered for it.
C27_NodeUrlList ==
  /\ \A ch \in Chains :
       LET e == processEnv.urls[ch]
           list == getNodeUrlList(processEnv, ch)
       IN /\ NoNodeUrls(e) <=> list.threw
          /\ (e.NODE_URLS # "" /\ ~NoNodeUrls(e))
               => list.urls = JSONparseList(e.NODE_URLS) /\ Len(list.urls) > 0
          /\ (e.NODE_URLS = "" /\ ~NoNodeUrls(e)) => list.urls = <<e.NODE_URL>>
  /\ \A c \in Callers :
       (getp[c].fn = "getProvider" /\ getp[c].pc = "done"
          /\ NoNodeUrls(processEnv.urls[getp[c].chainId]))
         => /\ getp[c].threw
            /\ getp[c].ret = 0
  /\ \A k \in ProviderCacheKeys :
       NoNodeUrls(processEnv.urls[k[1]]) => providerCache[k] = 0

\* C27 witness: getProvider has failed for a chain whose NODE_URLS parses
\* to an empty list although its NODE_URL is set, and for another chain,
\* whose NODE_URLS holds two URLs, it has returned a router.
C27_Witness ==
  \E c \in Callers : \E d \in Callers :
    /\ getp[c].fn = "getProvider" /\ getp[c].pc = "done" /\ getp[c].threw
    /\ processEnv.urls[getp[c].chainId] = [NODE_URLS |-> "[]", NODE_URL |-> "u0"]
    /\ Got(d)
    /\ processEnv.urls[getp[d].chainId].NODE_URLS = "[u1,u2]"

\* ------------------------------------------------------------------------
\* What RetryProvider.send rejects with
\* ------------------------------------------------------------------------
\* C28: when send rejects for want of successes or of a quorum, the value
\* it rejects with carries a message that lists every endpoint that failed
\* and every endpoint that succeeded.
C28_RejectionMessage ==
  outcome \in {"notEnough", "noQuorum"} =>
    /\ "message" \in DOMAIN rejection
    /\ rejection["message"].value.failed = Failed
    /\ rejection["message"].value.succeeded = EndpointsOf(Succeeded)

\* ------------------------------------------------------------------------
\* Concurrent cacheable calls on one key
\* ------------------------------------------------------------------------
Misses(c) == pc[c] = "redisGet" /\ Steps(c) /\ kv[redisKey(c)] = Nil
Receives(c) == pc[c] = "rpcRunning" /\ pc'[c] \in {"redisSet", "done"}

\* C29: a cacheable call that misses goes upstream at once, whatever other
\* calls on the same key are doing; each call that missed writes the result
\* of its own upstream request over whatever the key holds, so the key
\* holds the result written last, and each caller returns the result of
\* its own request.
C29_ConcurrentMisses ==
  [][\A c \in Callers :
       /\ Misses(c) => /\ pc'[c] = "rpcQueued"
                       /\ reqs'[c].rpc = reqs[c].rpc + 1
                       /\ queue' = Append(queue, c)
       /\ Receives(c) => \A d \in Callers \ {c} : result'[d] = result[d]
       /\ Writes(c) => /\ JSONparse(kv'[redisKey(c)]) = result[c].v
                       /\ pc'[c] = "done"
                       /\ result'[c] = result[c]
                       /\ \A d \in Callers \ {c} : result'[d] = result[d]
       /\ pc[c] = "redisSet" => result'[c] = result[c]]_vars

\* C29 witness: two calls missed the same key; one has written its result
\* and returned it, the other holds a different result of its own and is
\* about to write it over the first.
C29_Witness ==
  \E c \in Callers : \E d \in Callers :
    /\ c # d
    /\ pc[c] = "redisSet"
    /\ redisResult[c] = Nil
    /\ kv[redisKey(c)] # Nil
    /\ JSONparse(kv[redisKey(c)]) # result[c].v
    /\ pc[d] = "done"
    /\ redisResult[d] = Nil
    /\ reqs[d].rpc = 1
    /\ result[d] = Value(JSONparse(kv[redisKey(c)]))

\* ------------------------------------------------------------------------
\* send and the requests it has launched
\* ------------------------------------------------------------------------
\* requests of this call that are not over: in flight, or between retries
Unsettled == {t \in Slots : task[t].st \in {"inflight", "delay"}}

\* C30: send does not settle while a request it launched is pending: when
\* it resolves or rejects, every required slot and every launched fallback
\* has settled, and until then its outcome is open.
C30_SettlesAfterAllLaunched ==
  /\ phase = "settled" => Unsettled = {}
  /\ Unsettled # {} => outcome = "pending" /\ rejection = NoRejection
  /\ outcome # "pending" => phase = "settled"

\* C30 witness: in the tie-break wave enough equal results for a quorum
\* have arrived, one fallback is still in flight, and send has not settled.
C30_Witness ==
  /\ phase = "tiebreak"
  /\ outcome = "pending"
  /\ \E r \in Succeeded : Cardinality(Agreeing(r)) >= quorumThreshold
  /\ \E t \in FallbackTasks : task[t].st = "inflight"

\* ------------------------------------------------------------------------
\* rpcRateLimited: the throttleCallback getProvider gives every endpoint
\* ------------------------------------------------------------------------
\* Times are in milliseconds.  Math.random() is kept in tenths.
RECURSIVE pow2(_)
pow2(a) == IF a = 0 THEN 1 ELSE 2 * pow2(a - 1)
RandomTenths == {0, 1, 5, 9}
Attempts == 0..(MaxRetries + 2)

\* setTimeout(resolve, ms): a delay beyond 2^31 - 1 ms is replaced by 1 ms
setTimeout(ms) == IF ms > 2147483647 THEN 1 ELSE ms
\* delay(s): setTimeout(resolve, Math.round(s * 1000)), s in seconds
delay(s) == setTimeout(s * 1000)

ThrottleInit ==
  /\ RouterIdle
  /\ EndpointIdle
  /\ CompareIdle
  /\ processEnv = NoEnv
  /\ providerCache = [k \in ProviderCacheKeys |-> 0]
  /\ getp = [c \in Callers |-> NoGet]
  /\ constructorArgs = NoArgs
  /\ \E a \in Attempts : \E r \in 0..(MaxRetries + 1) : \E x \in RandomTenths :
       throttle = [NoThrottle EXCEPT !.st = "signalled", !.attempt = a,
                                     !.retries = r, !.random = x]

\* the HTTP layer got a 429 and calls the callback with (attempt, url): it
\* computes delayMs and awaits delay(delayMs)
RateLimited ==
  /\ throttle.st = "signalled"
  /\ LET baseDelay == 1000 * pow2(throttle.attempt)
         delayMs == baseDelay + (baseDelay * throttle.random) \div 10
     IN throttle' = [throttle EXCEPT !.st = "waiting", !.timeout = delay(delayMs)]
  /\ UNCHANGED <<processEnv, providerCache, getp, constructorArgs>>
  /\ UNCHANGED <<routerVars, endpointVars, compareVars>>

\* the timer fires after its timeout and the callback returns attempt < retries
TimerFires ==
  /\ throttle.st = "waiting"
  /\ throttle' = [throttle EXCEPT !.st = "answered", !.waited = throttle.timeout,
                                  !.retry = (throttle.attempt < throttle.retries)]
  /\ UNCHANGED <<processEnv, providerCache, getp, constructorArgs>>
  /\ UNCHANGED <<routerVars, endpointVars, compareVars>>

ThrottleNext == RateLimited \/ TimerFires

SpecThrottle == ThrottleInit /\ [][ThrottleNext]_vars

\* C31: on the rate-limit event with attempt number a the callback waits
\* at least 1000 * 2^a ms and less than 2 * 1000 * 2^a ms and then asks
\* for a retry exactly when a < retries.
C31_BackoffThenRetry ==
  throttle.st = "answered" =>
    /\ throttle.waited >= 1000 * pow2(throttle.attempt)
    /\ throttle.waited < 2 * 1000 * pow2(throttle.attempt)
    /\ throttle.retry <=> throttle.attempt < throttle.retries

\* ------------------------------------------------------------------------
\* _trySend: the attempts against one endpoint
\* ------------------------------------------------------------------------
\* slot t goes on with the same endpoint
SameChain(t) == task'[t].provider = task[t].provider
\* the chain of slot t ends in failure: its promise rejects, or its catch
\* handler moves the slot to a fallback
Surfaces(t) ==
  /\ task[t].st = "inflight"
  /\ task'[t].st = "rejected" \/ (task'[t].st = "inflight" /\ ~SameChain(t))

\* C32: the attempts of _trySend against one endpoint come strictly one
\* after another.  A chain starts with attempt 1; a further attempt is made
\* only after the previous one failed and the retry delay elapsed; nothing
\* is attempted after a success; a failure with a handler left is always
\* retried; and the chain fails only with the failure of attempt
\* retries + 1, which is the error recorded at that very step.
C32_AttemptsInSequence ==
  [][\A t \in Slots :
       /\ (task'[t].st = "inflight" /\ task'[t] # task[t]) =>
             \/ /\ task[t].st = "delay"
                /\ SameChain(t)
                /\ task'[t].attempt = task[t].attempt + 1
             \/ /\ task[t].st = "none" \/ Surfaces(t)
                /\ task'[t].attempt = 1
       /\ (task'[t].st = "delay" /\ task[t].st # "delay") =>
             /\ task[t].st = "inflight"
             /\ task'[t] = [task[t] EXCEPT !.st = "delay"]
       /\ task[t].st = "fulfilled" => task'[t] = task[t]
       /\ (task[t].st = "inflight" /\ task[t].attempt <= retries /\ task'[t] # task[t]) =>
             /\ SameChain(t)
             /\ task'[t].st \in {"fulfilled", "delay"}
       /\ Surfaces(t) =>
             /\ task[t].attempt = retries + 1
             /\ errors' = Append(errors, task[t].provider)
    ]_vars
C32_Witness ==
  /\ retries >= 1
  /\ retried
  /\ \E t \in Slots : task[t].st = "rejected" /\ errors # <<>>

\* ------------------------------------------------------------------------
\* CacheProvider.send: what reaches the store
\* ------------------------------------------------------------------------
\* the upstream request of a cacheable miss of caller c fails
MissFails(c) == pc[c] = "rpcRunning" /\ cacheable[c] /\ pc'[c] = "done"
\* some key gets a value in this step
StoreWritten == kv' # kv /\ \E k \in Keys : kv'[k] # kv[k] /\ kv'[k] # Nil

\* C33: the store is written only by a call whose upstream request of a
\* cacheable miss succeeded, with that result under that call's key; when
\* the upstream request fails the store is left as it was and send rejects
\* with the error; no stored value is an error.
C33_OnlySuccessIsCached ==
  /\ [](\A k \in Keys : kv[k] # Nil => JSONparse(kv[k]) \in LogResults)
  /\ [][/\ StoreWritten =>
            \E c \in Callers :
              /\ pc[c] = "redisSet"
              /\ cacheable[c]
              /\ reqs[c].rpc = 1
              /\ result[c].kind = "value"
              /\ kv' = [kv EXCEPT ![redisKey(c)] = JSONstringify(result[c].v)]
        /\ \A c \in Callers :
              MissFails(c) => kv' = kv /\ result'[c] = [kind |-> "error", v |-> "upstream"]
       ]_vars
\* a cacheable miss went upstream and the store has nothing under its key:
\* the request may now fail
C33_Witness ==
  \E c \in Callers :
    /\ pc[c] = "rpcRunning"
    /\ cacheable[c]
    /\ redisResult[c] = Nil
    /\ \A k \in Keys : kv[k] = Nil

\* ------------------------------------------------------------------------
\* The mismatch report of the tie-break
\* ------------------------------------------------------------------------
\* the successful endpoints whose result is (is not) the value returned
AgreeingEndpoints == {task[t].provider : t \in {u \in Succeeded : heap[u] = heap[resultRef]}}
DivergentEndpoints == {task[t].provider : t \in {u \in Succeeded : heap[u] # heap[resultRef]}}
ResultOfEndpoint(p) == heap[CHOOSE t \in Succeeded : task[t].provider = p]

\* C34: when send resolves through the tie-break and a successful endpoint
\* returned something else than the quorum value, exactly one warning has
\* been logged; it names as agreeing exactly the endpoints whose result is
\* the quorum value and as mismatched exactly the other successful
\* endpoints, each with the value it returned.
C34_MismatchWarning ==
  (outcome = "resolved" /\ TieBreakRan /\ DivergentEndpoints # {}) =>
    /\ Len(warnings) = 1
    /\ SeqRange(warnings[1].quorumProviders) = AgreeingEndpoints
    /\ Len(warnings[1].quorumProviders) = Cardinality(AgreeingEndpoints)
    /\ DOMAIN warnings[1].mismatchedProviders = DivergentEndpoints
    /\ \A p \in DivergentEndpoints : warnings[1].mismatchedProviders[p] = ResultOfEndpoint(p)
\* Q = 2, A and C return "0x10", B returns "0x11", nobody fails: B is
\* reported with its value
C34_Witness ==
  /\ outcome = "resolved"
  /\ quorumThreshold = 2
  /\ Len(providers) = 3
  /\ errors = <<>>
  /\ Succeeded = {1, 2, 3}
  /\ heap[1] = heap[3] /\ heap[2] # heap[1]
  /\ warnings = <<[quorumProviders |-> <<task[1].provider, task[3].provider>>,
                   mismatchedProviders |-> [p \in {task[2].provider} |-> heap[2]],
                   erroringProviders |-> <<>>]>>

\* ------------------------------------------------------------------------
\* RateLimitedProvider.send under fair scheduling
\* ------------------------------------------------------------------------
\* An endpoint without a store: CacheProvider.send is `super.send` and every
\* call goes to the queue.  The queue starts a task as soon as a worker is
\* free and a task waits (WF on Admit); every request the HTTP layer took
\* eventually settles, one way or the other (WF on its settling).
QueueInit == EndpointInit /\ ~redisClient

Settles(c) == (\E v \in LogResults : HttpResolves(c, v)) \/ HttpRejects(c)

QueueNext ==
  \/ \E c \in Callers : \E cl \in EndpointCalls : CallSend(c, cl)
  \/ Admit
  \/ \E c \in Callers : \E v \in LogResults : HttpResolves(c, v)
  \/ \E c \in Callers : HttpRejects(c)
  \/ \E c \in Callers : Return(c)

SpecQueueFair ==
  /\ QueueInit
  /\ [][QueueNext]_vars
  /\ WF_vars(Admit)
  /\ \A c \in Callers : WF_vars(Settles(c))

\* C35: when the request of caller c settles its slot is released and the
\* promise of c, and of nobody else, settles with it; every queued send is
\* eventually admitted and settled; and with nothing queued and nothing
\* under way the running count is 0.
C35_QueueDrains ==
  /\ [][\A c \in Callers :
          (pc[c] = "rpcRunning" /\ Steps(c)) =>
            /\ numRunning' = numRunning - 1
            /\ pc'[c] = "done"
            /\ result'[c].kind \in {"value", "error"}
            /\ \A d \in Callers \ {c} : pc'[d] = pc[d] /\ result'[d] = result[d]
       ]_vars
  /\ \A c \in Callers : (pc[c] = "rpcQueued") ~> (pc[c] = "rpcRunning")
  /\ \A c \in Callers : (pc[c] = "rpcRunning") ~> (pc[c] = "done")
  /\ []((queue = <<>> /\ \A c \in Callers : pc[c] # "rpcRunning") => numRunning = 0)
\* a request failed and the only slot of the endpoint runs the next one
C35_Witness ==
  /\ ~redisClient
  /\ maxConcurrency = 1
  /\ numRunning = 1
  /\ \E c, d \in Callers :
       /\ pc[c] = "done" /\ result[c].kind = "error"
       /\ pc[d] = "rpcRunning"

\* ------------------------------------------------------------------------
\* RetryProvider.send under fair scheduling
\* ------------------------------------------------------------------------
\* The event loop never leaves the call stuck: while an attempt is under
\* way, a retry timer is set or a Promise.allSettled is ready to continue,
\* one of these eventually happens (an attempt settles one way or the other,
\* a timer fires, a continuation runs).  The caller is not obliged to call.
AttemptSettles(t) ==
  \/ \E v \in StrResults \cup BlockResults : SendSucceeds(t, v)
  \/ SendFailsRetry(t)
  \/ TryWithFallbackCatch(t)
  \/ FallbackCatch(t)

RouterProgress ==
  \/ \E t \in Slots : AttemptSettles(t) \/ DelayElapsed(t)
  \/ RequiredSettled
  \/ FallbackSettled

\* the routers of the fair specification have at most this many endpoints
MaxFairProviders == 3
RouterFairInit == RouterInit /\ Len(providers) <= MaxFairProviders

SpecRouterFair == RouterFairInit /\ [][RouterNext]_vars /\ WF_vars(RouterProgress)

RECURSIVE Sum(_, _)
Sum(f, S) == IF S = {} THEN 0 ELSE LET x == CHOOSE y \in S : TRUE IN f[x] + Sum(f, S \ {x})
\* the chains started so far, and those still running
ChainsStarted == Sum(dispatched, Slots)
\* an upper bound of the provider.send calls made so far: a chain that has
\* ended made at most retries + 1, a running one has made task[t].attempt
AttemptsSoFar ==
  (ChainsStarted - Cardinality(Unsettled)) * (retries + 1)
    + Sum([t \in Slots |-> IF t \in Unsettled THEN task[t].attempt ELSE 0], Slots)

\* C36: a send that has started eventually settles, and at no time has it
\* made more than |endpoints| * (retries + 1) attempts: every endpoint gets
\* at most one chain and every chain at most retries + 1 attempts.
C36_SendTerminates ==
  /\ (phase \in {"dispatching", "tiebreak"}) ~> (phase = "settled")
  /\ [](AttemptsSoFar <= Len(providers) * (retries + 1))
  /\ [](ChainsStarted >= Cardinality(Unsettled))
\* every endpoint of a router with retries was used, some chain failed on its
\* last attempt, and the call has settled
C36_Witness ==
  /\ phase = "settled"
  /\ retries >= 1
  /\ retried
  /\ ChainsStarted = Len(providers)
  /\ Len(providers) >= 3
  /\ errors # <<>>

\* ------------------------------------------------------------------------
\* The choice among the classes of the tally
\* ------------------------------------------------------------------------
\* the successful results equal to that of slot t, and the first of them in
\* the order of [...values, ...fallbackValues] (slot order)
ClassOf(t) == {u \in Succeeded : heap[u] = heap[t]}
FirstOf(ts) == CHOOSE t \in ts : \A u \in ts : t <= u

\* C37: a call resolved by the tie-break resolves with a largest class of
\* equal results, and among several largest classes with the one whose
\* first member comes earliest; the value is that of a successful
\* endpoint, never the placeholder the tally starts with.
C37_EarliestLargestClass ==
  (outcome = "resolved" /\ TieBreakRan) =>
    /\ resultRef \in Succeeded
    /\ resultRef = FirstOf(ClassOf(resultRef))
    /\ \A t \in Succeeded :
         \/ Cardinality(ClassOf(t)) < Cardinality(ClassOf(resultRef))
         \/ /\ Cardinality(ClassOf(t)) = Cardinality(ClassOf(resultRef))
            /\ FirstOf(ClassOf(t)) >= resultRef
\* two classes of two results each with quorum 2: the class of slot 1 wins
C37_Witness ==
  /\ outcome = "resolved"
  /\ TieBreakRan
  /\ quorumThreshold = 2
  /\ \E t \in Succeeded :
       /\ heap[t] # heap[1]
       /\ Cardinality(ClassOf(t)) = 2
       /\ Cardinality(ClassOf(1)) = 2
  /\ resultRef = 1

\* ------------------------------------------------------------------------
\* Several CacheProviders of one router on one store
\* ------------------------------------------------------------------------
\* Every caller stands for the router's send on an endpoint of its own: the
\* endpoints have pairwise different URLs, the same chain, namespace and
\* redis client.  Each endpoint gets one call and fetches the block number
\* itself; as no endpoint has more than one request, no queue ever holds
\* one back (maxConcurrency is at least the number of callers).
Injective(f) == \A c, d \in DOMAIN f : c # d => f[c] # f[d]

SharedStoreInit ==
  /\ RouterIdle
  /\ CompareIdle
  /\ RegistryIdle
  /\ maxConcurrency = MaxConcurrency
  /\ redisClient = TRUE
  /\ queue = <<>>
  /\ numRunning = 0
  /\ pc = [c \in Callers |-> "idle"]
  /\ call = [c \in Callers |-> NoCall]
  /\ cacheable = [c \in Callers |-> FALSE]
  /\ result = [c \in Callers |-> NoResult]
  /\ reqs = [c \in Callers |-> NoReqs]
  /\ redisResult = [c \in Callers |-> Nil]
  /\ kv = [k \in Keys |-> Nil]
  /\ internalBlockNumber = NoBlockNumber
  /\ maxInternalBlockNumber = 0
  /\ connection \in {f \in [Callers -> Urls] : Injective(f)}
  /\ writer = {}

SharedStoreNext ==
  \/ \E c \in Callers : \E cl \in EndpointCalls : CallSend(c, cl)
  \/ \E c \in Callers : BlockNumberFetch(c)
  \/ BlockNumberAges
  \/ Admit
  \/ \E c \in Callers : \E b \in HeadReports : BlockNumberResolves(c, b)
  \/ \E c \in Callers : \E v \in LogResults : HttpResolves(c, v)
  \/ \E c \in Callers : RedisGet(c)
  \/ \E c \in Callers : RedisSet(c)

SpecSharedStore == SharedStoreInit /\ [][SharedStoreNext]_vars

\* C38: a value a CacheProvider returns from the store was written by that
\* same endpoint, never by another endpoint of the router, whatever the
\* (pairwise different) URLs of the endpoints.
C38_OwnEntriesOnly ==
  [][\A c \in Callers : Hits(c) => <<redisKey(c), connection[c]>> \in writer]_vars

\* ------------------------------------------------------------------------
\* getProvider when the construction fails
\* ------------------------------------------------------------------------
\* A configuration in which every chain has the one endpoint u0, and the
\* same with one thing wrong: no URL for chain 1, a quorum above the number
\* of endpoints, a fractional quorum, negative or fractional retries, a
\* negative delay, no reorg distance for chain 1.
Healthy ==
  [NoEnv EXCEPT !.urls = [ch \in Chains |-> [NODE_URLS |-> "", NODE_URL |-> "u0"]]]
FailEnvs ==
  { Healthy,
    [Healthy EXCEPT !.urls[1] = NoUrls],
    [Healthy EXCEPT !.NODE_QUORUM = "2"],
    [Healthy EXCEPT !.NODE_QUORUM = "1.5"],
    [Healthy EXCEPT !.NODE_RETRIES = "-1"],
    [Healthy EXCEPT !.NODE_RETRIES = "0.5"],
    [Healthy EXCEPT !.NODE_RETRY_DELAY = "-1"],
    [Healthy EXCEPT !.MAX_REORG_DISTANCE[1] = "undefined"] }

RegistryFailInit ==
  /\ RouterIdle
  /\ EndpointIdle
  /\ CompareIdle
  /\ processEnv \in FailEnvs
  /\ providerCache = [k \in ProviderCacheKeys |-> 0]
  /\ getp = [c \in Callers |-> NoGet]
  /\ constructorArgs = NoArgs
  /\ throttle = NoThrottle

SpecRegistryFail == RegistryFailInit /\ [][RegistryNext]_vars

\* the construction of a router for chain ch cannot succeed
Unconstructible(ch) ==
  \/ NoNodeUrls(processEnv.urls[ch])
  \/ processEnv.MAX_REORG_DISTANCE[ch] = "undefined"
  \/ Refused(ArgsOf(processEnv, getNodeUrlList(processEnv, ch).urls))
\* the getProvider call of c fails in this step
GetProviderFails(c) == getp[c].pc = "getRedis" /\ getp'[c].pc = "done" /\ getp'[c].threw

\* C39: a getProvider call whose construction fails leaves the registry as
\* it was; for a chain whose router cannot be constructed the registry
\* never holds an entry, every getProvider call fails (each one tries
\* again) and getCachedProvider throws; getProvider fails for no other
\* reason.
C39_FailureLeavesRegistry ==
  /\ [][\A c \in Callers : GetProviderFails(c) => providerCache' = providerCache]_vars
  /\ [](\A c \in Callers :
          getp[c].pc = "done" =>
            /\ Unconstructible(getp[c].chainId) =>
                  /\ getp[c].threw
                  /\ \A re \in BOOLEAN :
                       providerCache[getProviderCacheKey(getp[c].chainId, re)] = 0
            /\ (getp[c].fn = "getProvider" /\ getp[c].threw) =>
                  Unconstructible(getp[c].chainId))
\* two getProvider calls for a chain without reorg distance, one after the
\* other, have both failed
C39_Witness ==
  \E c, d \in Callers :
    /\ c # d
    /\ getp[c].fn = "getProvider" /\ getp[c].pc = "done" /\ getp[c].threw
    /\ getp[d].fn = "getProvider" /\ getp[d].pc = "done" /\ getp[d].threw
    /\ getp[c].chainId = getp[d].chainId
    /\ processEnv.MAX_REORG_DISTANCE[getp[c].chainId] = "undefined"
    /\ c \notin getp[d].among /\ d \notin getp[c].among

\* ------------------------------------------------------------------------
\* What send resolves with
\* ------------------------------------------------------------------------
\* the tie-break ran and none of its fallbacks succeeded
AllFallbacksFailed ==
  /\ TieBreakRan
  /\ \A t \in Slots : (t > quorumThreshold /\ task[t].st # "none") => task[t].st = "rejected"

\* C40: the value of a resolved call is the result object of a task whose
\* endpoint answered during this call, with the content the endpoint sent;
\* it is never the undefined placeholder of the tally (task 0), whatever
\* the quorum; and when every fallback of the tie-break failed the call
\* does not resolve at all.
C40_ResolvesWithReturnedResult ==
  /\ outcome = "resolved" =>
       /\ resultRef # 0
       /\ Fulfilled(resultRef)
       /\ dispatched[task[resultRef].provider] = 1
       /\ heap[resultRef] # Undefined
       /\ heap[resultRef] = returned[resultRef]
  /\ (phase = "settled" /\ AllFallbacksFailed) => outcome # "resolved"
\* a call resolved by the tie-break with the result of a later slot, after
\* one of the fallbacks had failed
C40_Witness ==
  /\ outcome = "resolved"
  /\ TieBreakRan
  /\ \E t \in Slots : t > quorumThreshold /\ task[t].st = "rejected"
  /\ resultRef > 1

====
